---- MODULE Spec2Model ----
(***************************************************************************)
(* A model of gasofo's discovery-and-wiring engine: the port registry      *)
(* (gasofo/ports.py), the discovery engine and wiring executor             *)
(* (gasofo/discoverable.py), and the leaf and composite components         *)
(* (gasofo/service.py, gasofo/domain.py, gasofo/convenience.py).           *)
(*                                                                         *)
(* Three specifications share the variables:                               *)
(*   SpecDiscover  discovery (and Domain definition) as a function of the  *)
(*                 component list, over every shape of component;          *)
(*   Spec          wiring of live component instances (auto_wire,          *)
(*                 set_provider);                                          *)
(*   SpecPorts     one PortArray under add/connect/disconnect/invoke.      *)
(***************************************************************************)
EXTENDS Integers, Sequences, FiniteSets, TLC

VARIABLES
    classes,    \* Domain class -> what its definition fixed (the classes that
                \* class statements have defined so far)
    instances,  \* live component -> what its construction fixed (a Domain
                \* instance: its service map and instance metadata)
    slots,      \* leaf instance -> its own PortArray (Service.deps)
    providers,  \* consumer instance -> INeed._providers (need -> provider)
    port_array, \* the PortArray exercised on its own
    replica,    \* <<the PortArray that PortArray.replicate(port_array) returned
                \* last>>, or <<>> before the first call
    shadow,     \* <<the ShadowPortArray built over the PortArrays in slots>>, or
                \* <<>> before it is built
    patcher,    \* <<the PortPatcher created last>>, or <<>> before the first
    last,       \* the last call: its name, its arguments, the error it raised
    result,     \* what the last call returned
    since,      \* history: port of port_array -> what connect_port bound to it
                \* since it was added or last disconnected (func), and whether
                \* the last disconnect_port found it with nothing bound (idle)
    wired       \* history: the wiring calls made so far, in short

vars == <<classes, instances, slots, providers, port_array, replica, shadow,
          patcher, last, result, since, wired>>

\* ---------------------------------------------------------------- bounds

\* Longest component list handed to AutoDiscoverConnections / auto_wire.
MaxList == 3

\* Longest __services__ list of a Domain definition.
MaxServices == 2

\* Longest list of live components handed to one auto_wire call.
MaxWire == 2

\* Longest list of live components in the scenario of a strict auto_wire that
\* fails and is tried again.
MaxRetry == 4

\* Most ports declared on the PortArray exercised on its own.
MaxPorts == 2

BoundedSeq(S, n) == UNION {[1..k -> S] : k \in 0..n}

Range(s) == {s[i] : i \in DOMAIN s}

\* Let([v \in {value} |-> body]): body, with v standing for the value, which
\* is computed once.
Let(binding) == binding[CHOOSE v \in DOMAIN binding : TRUE]

\* The empty dict.
EmptyMap == [x \in {} |-> x]

\* Every port name of the model, in ascending (ASCII) order.
NameOrder == <<"a1", "b1", "c1", "hidden", "p", "q", "x">>

\* sorted(names): the names in ascending order, as a list.
sorted(S) == SelectSeq(NameOrder, LAMBDA n : n \in S)

\* ------------------------------------------------------------ components

\* A component (a class or a live instance) is known by an id, a tuple of
\* strings; world(c) is what its definition fixed:
\*   kind      "Service" | "Domain" | "AdHocFuncProvider"
\*   deps      the names of the class-level deps PortArray (Service: its Needs;
\*             Domain: the unresolved needs of its children)
\*   meta      the class-level provider metadata, port name -> reference
\*             (Service: the method's name; Domain: the providing child)
\*   services  Domain: the children (instances, for an instance), else <<>>
\*   provider  AdHocFuncProvider: the wrapped object, else "none"
Component(kind, deps, meta, services, provider) ==
    [kind |-> kind, deps |-> deps, meta |-> meta, services |-> services,
     provider |-> provider]

\* What a port can be asked to hold, and what an attribute can be.
Value(kind, owner, name) == [kind |-> kind, owner |-> owner, name |-> name]

NoValue == Value("none", <<>>, "none")

NoClass == Component("none", {}, EmptyMap, <<>>, NoValue)

\* The names a shape of component stands for.
Names(tag) ==
    CASE tag = "-"  -> {}
      [] tag = "p"  -> {"p"}
      [] tag = "q"  -> {"q"}
      [] tag = "pq" -> {"p", "q"}

\* Every shape of Service class over the names p and q: <<"shape", n, m>> needs
\* Names(n) and provides Names(m), each port by the method of its name.
Shapes == {<<"shape", n, m>> : n \in {"-", "p", "q", "pq"}, m \in {"-", "p", "q", "pq"}}

\* The leaf classes of the wiring scenario.
\*   A, B, C   a chain after the services of tests/gasofo/test_discoverable.py
\*             (get_services): A needs b1 and x, B needs c1 and exposes its
\*             method get_b1 as port b1 (@provides_with), C provides c1
\*   XS, HS    the children of Domain D: XS needs c1 and its sibling's hidden
\*   G         func_as_provider(o, 'b1') for an object o that is not callable
LeafClasses ==
    [cls \in {<<"A">>, <<"B">>, <<"C">>, <<"XS">>, <<"HS">>, <<"G">>} |->
        CASE cls = <<"A">>  -> Component("Service", {"b1", "x"},
                                         [n \in {"a1"} |-> "a1"], <<>>, NoValue)
          [] cls = <<"B">>  -> Component("Service", {"c1"},
                                         [n \in {"b1"} |-> "get_b1"], <<>>, NoValue)
          [] cls = <<"C">>  -> Component("Service", {},
                                         [n \in {"c1"} |-> "c1"], <<>>, NoValue)
          [] cls = <<"XS">> -> Component("Service", {"c1", "hidden"},
                                         [n \in {"x"} |-> "get_x"], <<>>, NoValue)
          [] cls = <<"HS">> -> Component("Service", {},
                                         [n \in {"hidden"} |-> "hidden"], <<>>, NoValue)
          [] cls = <<"G">>  -> Component("AdHocFuncProvider", {},
                                         [n \in {"b1"} |-> "provider"], <<>>,
                                         Value("object", <<"g">>, "provider"))]

\* What the class statement of cls fixed: a leaf class of the scenario, or a
\* Domain class that has been defined.
class_definition(cls) ==
    IF cls[1] = "shape"
    THEN Component("Service", Names(cls[2]), [n \in Names(cls[3]) |-> n], <<>>, NoValue)
    ELSE IF cls \in DOMAIN LeafClasses THEN LeafClasses[cls] ELSE classes[cls]

\* The live components handed to auto_wire, and the class of each; a child
\* that a Domain instantiated is known as the Domain's id \o its class.
TopLevel == {<<"a">>, <<"b">>, <<"c">>, <<"d">>, <<"g">>}

class_of(instance) ==
    IF Len(instance) > 3 /\ instance[Len(instance) - 2] = "shape"
    THEN SubSeq(instance, Len(instance) - 2, Len(instance))
    ELSE IF Len(instance) > 1 THEN <<instance[Len(instance)]>>
    ELSE CASE instance = <<"a">> -> <<"A">>
           [] instance = <<"b">> -> <<"B">>
           [] instance = <<"c">> -> <<"C">>
           [] instance = <<"d">> -> <<"D">>
           [] instance = <<"g">> -> <<"G">>
           [] instance = <<"a2">> -> <<"A">>
           [] instance = <<"d2">> -> <<"D">>
           [] instance = <<"x">> -> <<"X">>

\* An instance for every entry of __services__, the class of every one
\* appended to the Domain's id.
RECURSIVE _instantiate_every_entry(_, _)
_instantiate_every_entry(instance, services) ==
    IF services = <<>> THEN <<>>
    ELSE <<instance \o Head(services)>>
         \o _instantiate_every_entry(instance, Tail(services))

\* Domain._instantiate_and_map_services: {service_class: service_class()}, one
\* instance for each distinct class of __services__.
RECURSIVE _instantiate_and_map_services(_, _)
_instantiate_and_map_services(instance, services) ==
    IF services = <<>> THEN <<>>
    ELSE LET rest == _instantiate_and_map_services(instance, Tail(services))
         IN  IF Head(services) \in {class_of(rest[i]) : i \in DOMAIN rest}
             THEN rest
             ELSE <<instance \o Head(services)>> \o rest

\* A live instance: a Service or adapter instance is as its class; a Domain
\* instance holds its service map (Domain.__init__) and the instance metadata,
\* which names the child instance in place of the child class
\* (DomainProviderMetadata.get_instance_metadata).
instance_of(c) ==
    LET cls == class_definition(class_of(c))
    IN  IF cls.kind # "Domain" THEN cls
        ELSE [cls EXCEPT
                !.services = _instantiate_and_map_services(c, cls.services),
                !.meta = [n \in DOMAIN cls.meta |-> c \o cls.meta[n]]]

\* What is fixed about component c, a class or a live instance.
world(c) ==
    IF c[1] = "shape"
    THEN Component("Service", Names(c[2]), [n \in Names(c[3]) |-> n], <<>>, NoValue)
    ELSE IF c \in DOMAIN LeafClasses \/ c \in DOMAIN classes
    THEN class_definition(c)
    ELSE IF c \in DOMAIN instances THEN instances[c]
    ELSE instance_of(c)

\* hasattr(c, 'get_needs'): Service and Domain are INeed, the adapters are not.
has_get_needs(c) == world(c).kind \in {"Service", "Domain"}

\* hasattr(c, 'get_provides'): every kind of the model is IProvide.
has_get_provides(c) == world(c).kind \in {"Service", "Domain", "AdHocFuncProvider"}

\* Service.get_needs / Domain.get_needs: cls.deps.get_ports().
get_needs(c) == world(c).deps

\* Service.get_provides / Domain.get_provides: cls.meta.get_provides();
\* AdHocFuncProvider.get_provides: [self.port_name].
get_provides(c) == DOMAIN world(c).meta

\* -------------------------------------------------------------- discovery

\* AutoDiscoverConnections._gather_needs: port -> the list of the entries
\* that need it, in list order (an entry listed twice is appended twice).
_gather_needs(components) ==
    LET needy == SelectSeq(components, has_get_needs)
    IN  [port \in UNION {get_needs(needy[i]) : i \in DOMAIN needy} |->
            SelectSeq(needy, LAMBDA c : port \in get_needs(c))]

\* _gather_provides without the check for a port recorded already: a later
\* entry takes the place of an earlier one.
RECURSIVE GatherProvidesFrom_overwriting(_, _, _)
GatherProvidesFrom_overwriting(components, i, provides) ==
    IF i > Len(components) THEN [error |-> "none", provides |-> provides]
    ELSE LET c  == components[i]
             ps == IF world(c).kind \in {"Service", "Domain", "AdHocFuncProvider"}
                   THEN DOMAIN world(c).meta ELSE {}
         IN  GatherProvidesFrom_overwriting(
                 components, i + 1,
                 [p \in ps \cup DOMAIN provides |->
                     IF p \in ps THEN c ELSE provides[p]])

\* The loop of _gather_provides from entry i on: the first port found already
\* recorded raises DuplicateProviders, otherwise the entry is recorded.
RECURSIVE GatherProvidesFrom(_, _, _)
GatherProvidesFrom(components, i, provides) ==
    IF i > Len(components) THEN [error |-> "none", provides |-> provides]
    ELSE LET c  == components[i]
             ps == IF has_get_provides(c) THEN get_provides(c) ELSE {}
         IN  IF ps \cap DOMAIN provides # {}
             THEN [error |-> "DuplicateProviders", provides |-> EmptyMap]
             ELSE GatherProvidesFrom(components, i + 1,
                                     [p \in ps |-> c] @@ provides)

\* AutoDiscoverConnections._gather_provides.
_gather_provides(components) == GatherProvidesFrom(components, 1, EmptyMap)

\* assert_no_components_satisfying_themselves looking at the first needer of
\* each port only.
components_satisfying_themselves_first_only(needs, provides) ==
    \E port \in DOMAIN needs :
        /\ port \in DOMAIN provides
        /\ provides[port] = needs[port][1]

\* AutoDiscoverConnections.assert_no_components_satisfying_themselves:
\* TRUE when it raises SelfReferencingMadness.
components_satisfying_themselves(needs, provides) ==
    \E port \in DOMAIN needs :
        /\ port \in DOMAIN provides
        /\ provides[port] \in Range(needs[port])

\* An AutoDiscoverConnections object (its _needs and _provides), or the error
\* its construction raised.
Discovered(error, needs, provides) ==
    [error |-> error, needs |-> needs, provides |-> provides]

\* AutoDiscoverConnections.__init__.
AutoDiscoverConnections(components) ==
    Let([gathered_needs \in {_gather_needs(components)} |->
    Let([gathered \in {_gather_provides(components)} |->
        IF gathered.error # "none"
        THEN Discovered(gathered.error, EmptyMap, EmptyMap)
        ELSE IF components_satisfying_themselves(gathered_needs, gathered.provides)
        THEN Discovered("SelfReferencingMadness", EmptyMap, EmptyMap)
        ELSE Discovered("none", gathered_needs, gathered.provides)])])

\* AutoDiscoverConnections.get_needs / get_provides (of a discovery result).
discovered_needs(d) == sorted(DOMAIN d.needs)
discovered_provides(d) == sorted(DOMAIN d.provides)

\* unsatisfied_needs returning every need.
unsatisfied_needs_all(d) == sorted(DOMAIN d.needs)

\* AutoDiscoverConnections.unsatisfied_needs.
unsatisfied_needs(d) == sorted(DOMAIN d.needs \ DOMAIN d.provides)

\* AutoDiscoverConnections.satisfied_needs.
satisfied_needs(d) == sorted(DOMAIN d.needs \cap DOMAIN d.provides)

DiscoveredConnection(port_name, consumer, provider) ==
    [port_name |-> port_name, consumer |-> consumer, provider |-> provider]

\* AutoDiscoverConnections.connections: what the generator yields, in order,
\* when the dict self._needs is iterated in the order `order` (a list of its
\* keys; a dict's iteration order is the build's).
RECURSIVE connections(_, _)
connections(d, order) ==
    IF order = <<>> THEN <<>>
    ELSE LET port == Head(order)
         IN  (IF port \notin DOMAIN d.provides THEN <<>>
              ELSE [i \in DOMAIN d.needs[port] |->
                       DiscoveredConnection(port, d.needs[port][i],
                                            d.provides[port])])
             \o connections(d, Tail(order))

\* The orders in which a dict with the keys S can be iterated.
Orders(S) == {o \in [1..Cardinality(S) -> S] : Range(o) = S}

\* ------------------------------------------------------------ port names

Lower == {"a","b","c","d","e","f","g","h","i","j","k","l","m",
          "n","o","p","q","r","s","t","u","v","w","x","y","z"}
Upper == {"A","B","C","D","E","F","G","H","I","J","K","L","M",
          "N","O","P","Q","R","S","T","U","V","W","X","Y","Z"}
Digit == {"0","1","2","3","4","5","6","7","8","9"}

\* The characters of the port names of the model.
Spelling ==
    [name \in {"hello", "world", "add_port", "_hidden", "Hello", "hello\n", "a1",
               "b1", "c1", "hidden", "p", "q", "x"} |->
        CASE name = "hello" -> <<"h","e","l","l","o">>
          [] name = "world" -> <<"w","o","r","l","d">>
          [] name = "add_port" -> <<"a","d","d","_","p","o","r","t">>
          [] name = "_hidden" -> <<"_","h","i","d","d","e","n">>
          [] name = "Hello" -> <<"H","e","l","l","o">>
          [] name = "hello\n" -> <<"h","e","l","l","o","\n">>
          [] name = "a1" -> <<"a","1">>
          [] name = "b1" -> <<"b","1">>
          [] name = "c1" -> <<"c","1">>
          [] name = "hidden" -> <<"h","i","d","d","e","n">>
          [] name = "p" -> <<"p">>
          [] name = "q" -> <<"q">>
          [] name = "x" -> <<"x">>]

\* VALID_PORT_NAME_FORMAT.match(chars), for r'[a-z][a-zA-Z0-9_]*$': the
\* pattern is tried at position 0 only; the star takes the longest run of
\* word characters (a shorter run ends before a word character, where $
\* cannot match either); $ matches at the end of the string and just before
\* a newline that ends the string.
VALID_PORT_NAME_FORMAT(chars) ==
    /\ Len(chars) >= 1
    /\ chars[1] \in Lower
    /\ LET word == Lower \cup Upper \cup Digit \cup {"_"}
           run  == CHOOSE k \in 1..Len(chars) :
                     /\ \A i \in 2..k : chars[i] \in word
                     /\ (k < Len(chars) => chars[k + 1] \notin word)
       IN  \/ run = Len(chars)
           \/ run = Len(chars) - 1 /\ chars[Len(chars)] = "\n"

RESERVED_PORT_NAMES ==
    {"meta", "deps", "add_port", "get_ports", "replicate",
     "is_disconnected_port", "disconnect_port", "connect_port", "get_needs",
     "get_provides", "get_interface_class", "assert_valid_port_name"}

\* PortArray.assert_valid_port_name: the error it raises, or "none".
assert_valid_port_name(port_name) ==
    IF ~VALID_PORT_NAME_FORMAT(Spelling[port_name]) THEN "InvalidPortName"
    ELSE IF port_name \in RESERVED_PORT_NAMES THEN "InvalidPortName"
    ELSE "none"

\* ---------------------------------------------------------------- values

\* PortArray._get_placeholder_func_for_disconnected_port:
\* partial(not_yet_connected, port_name), tagged disconnected = True.
_get_placeholder_func_for_disconnected_port(port_name) ==
    Value("placeholder", <<>>, port_name)

\* getattr(obj, method_name) on an instance: the method bound to it.
BoundMethod(instance, method_name) == Value("method", instance, method_name)

\* callable(func).
callable(func) ==
    func.kind \in {"function", "lambda", "method", "staticmethod",
                   "classmethod", "callable_object", "placeholder"}

\* func(*args): what the call returns, or what it raises. A placeholder is
\* not_yet_connected(port_name, *args), which raises DisconnectedPort naming
\* the port; any other callable is applied to exactly the arguments given.
Call(func, args) ==
    IF func.kind = "placeholder"
    THEN [raised |-> "DisconnectedPort", port |-> func.name,
          returned |-> <<>>]
    ELSE [raised |-> "none", port |-> "none",
          returned |-> <<func, args>>]

\* -------------------------------------------------------------- PortArray

\* A PortArray: _ports, and the instance attributes setattr put on it.
PortArray == [ports |-> {}, attrs |-> EmptyMap]

Outcome(error, array) == [error |-> error, array |-> array]

\* setattr(array, name, value).
setattr(array, name, value) ==
    [array EXCEPT !.attrs = [n \in DOMAIN array.attrs \cup {name} |->
                                IF n = name THEN value ELSE array.attrs[n]]]

\* PortArray.add_port.
add_port(array, port_name) ==
    IF assert_valid_port_name(port_name) # "none"
    THEN Outcome(assert_valid_port_name(port_name), array)
    ELSE IF port_name \in array.ports
    THEN Outcome("DuplicatePortDefinition", array)
    ELSE Outcome("none",
            setattr([array EXCEPT !.ports = @ \cup {port_name}], port_name,
                    _get_placeholder_func_for_disconnected_port(port_name)))

\* PortArray.get_ports.
get_ports(array) == array.ports

\* connect_port that checks its arguments and binds nothing.
connect_port_binding_nothing(array, port_name, func) ==
    IF ~callable(func) THEN Outcome("WiringError", array)
    ELSE IF port_name \notin array.ports THEN Outcome("UnknownPort", array)
    ELSE Outcome("none", array)

\* connect_port that looks for the port before it looks at func.
connect_port_declared_first(array, port_name, func) ==
    IF port_name \notin array.ports THEN Outcome("UnknownPort", array)
    ELSE IF ~callable(func) THEN Outcome("WiringError", array)
    ELSE Outcome("none", setattr(array, port_name, func))

\* PortArray.connect_port.
connect_port(array, port_name, func) ==
    IF ~callable(func) THEN Outcome("WiringError", array)
    ELSE IF port_name \notin array.ports THEN Outcome("UnknownPort", array)
    ELSE Outcome("none", setattr(array, port_name, func))

\* disconnect_port that leaves the port as it is.
disconnect_port_resetting_nothing(array, port_name) ==
    IF port_name \notin array.ports THEN Outcome("UnknownPort", array)
    ELSE Outcome("none", array)

\* PortArray.disconnect_port.
disconnect_port(array, port_name) ==
    IF port_name \notin array.ports THEN Outcome("UnknownPort", array)
    ELSE Outcome("none",
            setattr(array, port_name,
                    _get_placeholder_func_for_disconnected_port(port_name)))

\* PortArray.is_disconnected_port: getattr(port, 'disconnected', False); only
\* the placeholders carry the attribute among the values of the model.
is_disconnected_port(array, port_name) ==
    IF port_name \notin array.ports
    THEN [error |-> "UnknownPort", value |-> FALSE]
    ELSE [error |-> "none",
          value |-> array.attrs[port_name].kind = "placeholder"]

\* array.<port_name>(*args) for a declared port: the instance attribute is
\* looked up and called.
invoke(array, port_name, args) == Call(array.attrs[port_name], args)

\* PortArray.replicate: a new array declaring the ports of another one.
RECURSIVE ReplicateFrom(_, _)
ReplicateFrom(new_array, todo) ==
    IF todo = {} THEN new_array
    ELSE LET port == CHOOSE n \in todo : TRUE
         IN  ReplicateFrom(add_port(new_array, port).array, todo \ {port})

\* replicate handing back the array it was given, bindings included.
replicate_keeping_bindings(another_port_array) == another_port_array

replicate(another_port_array) ==
    ReplicateFrom(PortArray, get_ports(another_port_array))

\* Needs(ports): a PortArray to which every name of ports was added.
Needs(ports) == ReplicateFrom(PortArray, ports)

\* ------------------------------------------------- components as providers

ProviderFunc(error, func) == [error |-> error, func |-> func]

\* get_provider_func by a raw attribute lookup, getattr(self, port_name).
get_provider_func_by_attribute(c, port_name) ==
    IF port_name \notin DOMAIN world(c).meta
    THEN ProviderFunc("UnknownPort", NoValue)
    ELSE ProviderFunc("none", BoundMethod(c, port_name))

\* get_provider_func(port_name) of a live component.
\*   Service: the method registered for the port in the class metadata, bound
\*            to the instance (ServiceProviderMetadata.get_provider_method_name
\*            raises UnknownPort for a name that is not provided).
\*   Domain:  the instance metadata names the child instance that provides the
\*            port (DomainProviderMetadata.get_provider), which resolves it.
\*   AdHocFuncProvider: the wrapped object, for its one port name.
RECURSIVE get_provider_func(_, _)
get_provider_func(c, port_name) ==
    IF port_name \notin DOMAIN world(c).meta
    THEN ProviderFunc("UnknownPort", NoValue)
    ELSE CASE world(c).kind = "Service" ->
                ProviderFunc("none", BoundMethod(c, world(c).meta[port_name]))
           [] world(c).kind = "Domain" ->
                get_provider_func(world(c).meta[port_name], port_name)
           [] world(c).kind = "AdHocFuncProvider" ->
                ProviderFunc("none", world(c).provider)

\* ------------------------------------------------------------ port flags

\* type(c) for a live component, c itself for a class.
type(c) ==
    IF c[1] = "shape" \/ c \in DOMAIN LeafClasses \/ c \in DOMAIN classes
    THEN c
    ELSE class_of(c)

\* method.__port_attributes__ of the method a Service class registers for
\* port: {} after @provides, the keyword arguments and with_name after
\* @provides_with(name, **kwargs). In the scenario a method registered under
\* another name than its own was tagged with provides_with(name=port), and XS
\* tags get_x with provides_with('x', volume=10).
__port_attributes__(cls, port) ==
    LET method == class_definition(cls).meta[port]
    IN  (IF method # port THEN [flag \in {"with_name"} |-> port] ELSE EmptyMap)
        @@ (IF cls = <<"XS">> THEN [flag \in {"volume"} |-> "10"] ELSE EmptyMap)

\* flags.pop(flag, None), as to the dict it leaves.
pop(flags, flag) == [f \in DOMAIN flags \ {flag} |-> flags[f]]

ProviderFlags(error, flags) == [error |-> error, flags |-> flags]

\* get_provider_flags(port_name) of a class or a live component; a
\* classmethod of Service and of Domain, answered by the class metadata.
\*   Service: a copy of the flags ServiceMetaclass registered, which are the
\*            method's __port_attributes__.
\*   Domain:  a copy of the flags DomainMetaclass.__new__ registered: those
\*            of the providing class, with 'with_name' popped.
\*   AdHocFuncProvider: {} for its port.
\* ProviderMetadata.get_provider_flags raises UnknownPort for any other name.
RECURSIVE get_provider_flags(_, _)
get_provider_flags(c, port_name) ==
    IF port_name \notin DOMAIN world(c).meta
    THEN ProviderFlags("UnknownPort", EmptyMap)
    ELSE CASE world(c).kind = "Service" ->
                ProviderFlags("none", __port_attributes__(type(c), port_name))
           [] world(c).kind = "Domain" ->
                LET provider == class_definition(type(c)).meta[port_name]
                    inherited_flags == get_provider_flags(provider, port_name).flags
                IN  ProviderFlags("none", pop(inherited_flags, "with_name"))
           [] world(c).kind = "AdHocFuncProvider" ->
                ProviderFlags("none", EmptyMap)

\* get_provider_flag(port_name, flag_name): self._flags[port_name].get(flag_name, None).
get_provider_flag(c, port_name, flag_name) ==
    LET found == get_provider_flags(c, port_name)
    IN  IF found.error # "none" THEN [error |-> found.error, value |-> "None"]
        ELSE [error |-> "none",
              value |-> IF flag_name \in DOMAIN found.flags
                        THEN found.flags[flag_name] ELSE "None"]

\* d.meta.get_provider_flags(port_name) for a Domain instance d: the flags
\* DomainProviderMetadata.get_instance_metadata registered on the clone,
\* provider_instance.get_provider_flags(port_name=port) as returned.
get_instance_metadata_flags(d, port_name) ==
    IF port_name \notin DOMAIN world(d).meta
    THEN ProviderFlags("UnknownPort", EmptyMap)
    ELSE get_provider_flags(world(d).meta[port_name], port_name)

\* ------------------------------------------------- components as consumers

\* The connection state of the live components: every leaf's own PortArray
\* (Service.deps) and every consumer's INeed._providers.
State(s, p) == [slots |-> s, providers |-> p]

Result(error, st) == [error |-> error, st |-> st]

RECURSIVE _gather_ports(_, _)

\* A ShadowPortArray that is given no ports to ignore.
ignored_ports_none(d) == {}

\* Domain.__init__: ignore_ports is satisfied_needs() of the discovery over
\* the child instances.
ignored_ports(d) ==
    Range(satisfied_needs(AutoDiscoverConnections(world(d).services)))

\* instance.deps.get_ports().
deps_get_ports(st, c) ==
    IF world(c).kind = "Domain" THEN DOMAIN _gather_ports(st, c)
    ELSE get_ports(st.slots[c])

\* ShadowPortArray._gather_ports for the deps of Domain instance d: port ->
\* the children whose deps declare it, the ignored ports left out. The
\* children's deps are Service.deps (a PortArray) or, for a nested Domain, its
\* own ShadowPortArray. (Gathered once, by ShadowPortArray.__init__; the
\* arrays of component instances are given no port after that, so what is
\* gathered from st at any later time is the same.)
_gather_ports(st, d) ==
    LET arrays == SelectSeq(world(d).services, has_get_needs)
        all    == UNION {deps_get_ports(st, arrays[i]) : i \in DOMAIN arrays}
    IN  [port \in all \ ignored_ports(d) |->
            SelectSeq(arrays, LAMBDA c : port \in deps_get_ports(st, c))]

\* instance.deps.connect_port(port_name, func): PortArray.connect_port for a
\* Service, ShadowPortArray.connect_port for a Domain, which passes the call on
\* to every child array that declares the port, in turn.
RECURSIVE deps_connect_port(_, _, _, _)
RECURSIVE ShadowConnectFrom(_, _, _, _)
\* The loop of ShadowPortArray.connect_port leaving after the first array.
ShadowConnectFrom_first_only(st, arrays, port_name, func) ==
    IF arrays = <<>> THEN Result("none", st)
    ELSE deps_connect_port(st, Head(arrays), port_name, func)

ShadowConnectFrom(st, arrays, port_name, func) ==
    IF arrays = <<>> THEN Result("none", st)
    ELSE Let([r \in {deps_connect_port(st, Head(arrays), port_name, func)} |->
             IF r.error # "none" THEN r
             ELSE ShadowConnectFrom(r.st, Tail(arrays), port_name, func)])

\* deps.connect_port of a Service whose deps is the array of its class, one
\* array for the class and all its instances: the call binds the port in all.
RECURSIVE ConnectEvery(_, _, _, _)
ConnectEvery(st, keys, port_name, func) ==
    IF keys = {} THEN Result("none", st)
    ELSE LET k == CHOOSE k \in keys : TRUE
             o == connect_port(st.slots[k], port_name, func)
         IN  IF o.error # "none" THEN Result(o.error, st)
             ELSE ConnectEvery([st EXCEPT !.slots[k] = o.array], keys \ {k},
                               port_name, func)

RECURSIVE deps_connect_port_shared(_, _, _, _)
deps_connect_port_shared(st, c, port_name, func) ==
    IF world(c).kind = "Domain"
    THEN IF ~callable(func) THEN Result("WiringError", st)
         ELSE Let([ports \in {_gather_ports(st, c)} |->
                  IF port_name \notin DOMAIN ports
                  THEN Result("UnknownPort", st)
                  ELSE ShadowConnectFrom(st, ports[port_name], port_name, func)])
    ELSE ConnectEvery(st, {k \in DOMAIN st.slots :
                              IF k \in DOMAIN LeafClasses \cup DOMAIN classes
                              THEN k = class_of(c)
                              ELSE class_of(k) = class_of(c)},
                      port_name, func)

deps_connect_port(st, c, port_name, func) ==
    IF world(c).kind = "Domain"
    THEN IF ~callable(func) THEN Result("WiringError", st)
         ELSE Let([ports \in {_gather_ports(st, c)} |->
                  IF port_name \notin DOMAIN ports
                  THEN Result("UnknownPort", st)
                  ELSE ShadowConnectFrom(st, ports[port_name], port_name, func)])
    ELSE Let([o \in {connect_port(st.slots[c], port_name, func)} |->
             Result(o.error, [st EXCEPT !.slots[c] = o.array])])

\* instance.deps.disconnect_port(port_name): PortArray.disconnect_port for a
\* Service, ShadowPortArray.disconnect_port for a Domain, which passes the
\* call on to every child array that declares the port, in turn.
RECURSIVE deps_disconnect_port(_, _, _)
RECURSIVE ShadowDisconnectFrom(_, _, _)
ShadowDisconnectFrom(st, arrays, port_name) ==
    IF arrays = <<>> THEN Result("none", st)
    ELSE Let([r \in {deps_disconnect_port(st, Head(arrays), port_name)} |->
             IF r.error # "none" THEN r
             ELSE ShadowDisconnectFrom(r.st, Tail(arrays), port_name)])

deps_disconnect_port(st, c, port_name) ==
    IF world(c).kind = "Domain"
    THEN Let([ports \in {_gather_ports(st, c)} |->
             IF port_name \notin DOMAIN ports
             THEN Result("UnknownPort", st)
             ELSE ShadowDisconnectFrom(st, ports[port_name], port_name)])
    ELSE Let([o \in {disconnect_port(st.slots[c], port_name)} |->
             Result(o.error, [st EXCEPT !.slots[c] = o.array])])

\* Service._satisfy_need / Domain._satisfy_need.
_satisfy_need(st, c, port_name, func) ==
    deps_connect_port(st, c, port_name, func)

\* Service._is_compatible_provider / Domain._is_compatible_provider.
_is_compatible_provider(c, port_name, provider) == TRUE

\* set_provider without the check for a provider recorded already.
set_provider_overwriting(st, consumer, port_name, provider) ==
    Let([pf \in {get_provider_func(provider, port_name)} |->
        IF pf.error # "none" THEN Result(pf.error, st)
        ELSE Let([r \in {_satisfy_need(st, consumer, port_name, pf.func)} |->
                 IF r.error # "none" THEN r
                 ELSE Result("none",
                         [r.st EXCEPT !.providers[consumer] =
                             [n \in DOMAIN @ \cup {port_name} |->
                                 IF n = port_name THEN provider ELSE @[n]]])])])

\* set_provider that records the provider before it satisfies the need.
set_provider_recording_first(st, consumer, port_name, provider) ==
    IF port_name \in DOMAIN st.providers[consumer]
    THEN Result("DuplicateProviders", st)
    ELSE Let([recorded \in {[st EXCEPT !.providers[consumer] =
                                [n \in {port_name} |-> provider] @@ @]} |->
             Let([pf \in {get_provider_func(provider, port_name)} |->
                 IF pf.error # "none" THEN Result(pf.error, recorded)
                 ELSE _satisfy_need(recorded, consumer, port_name, pf.func)])])

\* INeed.set_provider.
set_provider(st, consumer, port_name, provider) ==
    IF port_name \in DOMAIN st.providers[consumer]
    THEN Result("DuplicateProviders", st)
    ELSE IF ~_is_compatible_provider(consumer, port_name, provider)
    THEN Result("IncompatibleProvider", st)
    ELSE Let([pf \in {get_provider_func(provider, port_name)} |->
             IF pf.error # "none" THEN Result(pf.error, st)
             ELSE Let([r \in {_satisfy_need(st, consumer, port_name, pf.func)} |->
                      IF r.error # "none" THEN r
                      ELSE Result("none",
                              [r.st EXCEPT !.providers[consumer] =
                                  [n \in {port_name} |-> provider] @@ @])])])

\* INeed.get_provider: the provider recorded, or DisconnectedPort.
get_provider(st, c, port_name) ==
    IF port_name \in DOMAIN st.providers[c]
    THEN [error |-> "none", provider |-> st.providers[c][port_name]]
    ELSE [error |-> "DisconnectedPort", provider |-> <<>>]

\* ------------------------------------------------------- ShadowPortArray

\* ShadowPortArray(arrays, ignore_ports) over PortArrays kept under their
\* names in `held`: __init__ sets ignored_ports and _children, and gathers
\* _ports (port -> the arrays that declare it, the ignored ports left out)
\* from what the arrays declare at that moment.
ShadowPortArray(held, arrays, ignore_ports) ==
    [ignored_ports |-> ignore_ports,
     _children |-> arrays,
     _ports |->
        [port \in UNION {get_ports(held[arrays[i]]) : i \in DOMAIN arrays}
                    \ ignore_ports |->
            SelectSeq(arrays, LAMBDA a : port \in get_ports(held[a]))]]

\* ShadowPortArray.get_ports: the keys of _ports.
shadow_get_ports(self) == DOMAIN self._ports

Held(error, held) == [error |-> error, held |-> held]

\* for array in self._ports[port_name]: array.connect_port(port_name, func)
RECURSIVE ConnectEach(_, _, _, _)
ConnectEach(held, arrays, port_name, func) ==
    IF arrays = <<>> THEN Held("none", held)
    ELSE Let([o \in {connect_port(held[Head(arrays)], port_name, func)} |->
             IF o.error # "none" THEN Held(o.error, held)
             ELSE ConnectEach([held EXCEPT ![Head(arrays)] = o.array],
                              Tail(arrays), port_name, func)])

\* ShadowPortArray.connect_port.
shadow_connect_port(held, self, port_name, func) ==
    IF ~callable(func) THEN Held("WiringError", held)
    ELSE IF port_name \notin DOMAIN self._ports THEN Held("UnknownPort", held)
    ELSE ConnectEach(held, self._ports[port_name], port_name, func)

\* for array in self._ports[port_name]: array.disconnect_port(port_name)
RECURSIVE DisconnectEach(_, _, _)
DisconnectEach(held, arrays, port_name) ==
    IF arrays = <<>> THEN Held("none", held)
    ELSE Let([o \in {disconnect_port(held[Head(arrays)], port_name)} |->
             IF o.error # "none" THEN Held(o.error, held)
             ELSE DisconnectEach([held EXCEPT ![Head(arrays)] = o.array],
                                 Tail(arrays), port_name)])

\* ShadowPortArray.disconnect_port.
shadow_disconnect_port(held, self, port_name) ==
    IF port_name \notin DOMAIN self._ports THEN Held("UnknownPort", held)
    ELSE DisconnectEach(held, self._ports[port_name], port_name)

\* ----------------------------------------------------------------- wiring

\* wire_up_discovered_connections over the connections in the order yielded:
\* the first set_provider that raises ends the loop, what was bound stays.
RECURSIVE wire_up_discovered_connections(_, _)
wire_up_discovered_connections(st, conns) ==
    IF conns = <<>> THEN Result("none", st)
    ELSE Let([r \in {set_provider(st, Head(conns).consumer, Head(conns).port_name,
                          Head(conns).provider)} |->
             IF r.error # "none" THEN r
             ELSE wire_up_discovered_connections(r.st, Tail(conns))])

\* What auto_wire raised (with the port names its message lists) and the
\* connection state it left.
Wired(error, message, st) == [error |-> error, message |-> message, st |-> st]

\* auto_wire that wires up what it discovered before it looks for
\* unsatisfied needs.
auto_wire_binding_first(st, components, expect_all_ports_connected, order) ==
    Let([discovered \in {AutoDiscoverConnections(components)} |->
        IF discovered.error # "none" THEN Wired(discovered.error, <<>>, st)
        ELSE Let([r \in {wire_up_discovered_connections(
                     st, connections(discovered, order))} |->
                 IF r.error # "none" THEN Wired(r.error, <<>>, r.st)
                 ELSE IF /\ expect_all_ports_connected
                         /\ unsatisfied_needs(discovered) # <<>>
                 THEN Wired("DisconnectedPort", unsatisfied_needs(discovered),
                            r.st)
                 ELSE Wired("none", <<>>, r.st)])])

\* auto_wire that never looks for unsatisfied needs.
auto_wire_expecting_nothing(st, components, expect_all_ports_connected, order) ==
    Let([discovered \in {AutoDiscoverConnections(components)} |->
        IF discovered.error # "none" THEN Wired(discovered.error, <<>>, st)
        ELSE Let([r \in {wire_up_discovered_connections(
                     st, connections(discovered, order))} |->
                 Wired(r.error, <<>>, r.st)])])

\* auto_wire(components, expect_all_ports_connected), the needs dict of the
\* discovery being iterated in the order `order`.
auto_wire(st, components, expect_all_ports_connected, order) ==
    Let([discovered \in {AutoDiscoverConnections(components)} |->
    Let([no_matches \in {unsatisfied_needs(discovered)} |->
        IF discovered.error # "none" THEN Wired(discovered.error, <<>>, st)
        ELSE IF expect_all_ports_connected /\ no_matches # <<>>
        THEN Wired("DisconnectedPort", no_matches, st)
        ELSE Let([r \in {wire_up_discovered_connections(
                     st, connections(discovered, order))} |->
                 Wired(r.error, <<>>, r.st)])])])

\* ---------------------------------------------------------- parse_deps_used

\* A node of the syntax tree ast.parse returns for the source of a method:
\*   Name(id); Attribute(value, attr), value.attr; Call(func, args, keywords),
\*   the keywords being keyword nodes around their values; Constant, a string
\*   literal; and Other for every node without a visitor of its own (operator,
\*   branch, comprehension, subscript, nested function), with its children.
\* A comment leaves no node.
Node(node_type, id, children, keywords) ==
    [type |-> node_type, id |-> id, children |-> children, keywords |-> keywords]

ast_Name(id) == Node("Name", id, <<>>, <<>>)
ast_Attribute(value, attr) == Node("Attribute", attr, <<value>>, <<>>)
ast_Call(func, args, keywords) == Node("Call", "", <<func>> \o args, keywords)
ast_keyword(value) == Node("keyword", "", <<value>>, <<>>)
ast_Constant(text) == Node("Constant", text, <<>>, <<>>)
ast_Other(node_type, children) == Node(node_type, "", children, <<>>)

\* extract_call_attribute_chain: the names of an attribute chain that starts
\* at a Name, ['self', 'deps', 'x']; <<>> stands for FoundChainedCall, raised
\* when the chain goes through a node that is no Attribute.
RECURSIVE extract_call_attribute_chain(_)
extract_call_attribute_chain(node) ==
    IF node.type # "Attribute" THEN <<>>
    ELSE IF node.children[1].type = "Name"
    THEN <<node.children[1].id, node.id>>
    ELSE LET chain == extract_call_attribute_chain(node.children[1])
         IN  IF chain = <<>> THEN <<>> ELSE Append(chain, node.id)

\* DepCallFinder.visit: visit_Call for a Call, NodeVisitor.generic_visit, which
\* visits every child, for any other node; as to the names added to
\* deps_calls.
\* visit_Call: when func is an Attribute, the chain is extracted; a chain
\* through a call has func visited, a chain that reads self.deps.<name> adds
\* the name. Then the args and the keywords are visited. A func that is no
\* Attribute is not visited.
RECURSIVE visit(_)
RECURSIVE visit_Call(_)
visit_Call(node) ==
    LET func == node.children[1]
        args == Tail(node.children)
        attr_chain == extract_call_attribute_chain(func)
        found ==
            IF func.type # "Attribute" THEN {}
            ELSE IF attr_chain = <<>> THEN visit(func)
            ELSE IF SubSeq(attr_chain, 1, Len(attr_chain) - 1) = <<"self", "deps">>
            THEN {attr_chain[Len(attr_chain)]}
            ELSE {}
    IN  found
        \cup UNION {visit(args[i]) : i \in DOMAIN args}
        \cup UNION {visit(node.keywords[i]) : i \in DOMAIN node.keywords}

visit(node) ==
    IF node.type = "Call" THEN visit_Call(node)
    ELSE UNION {visit(node.children[i]) : i \in DOMAIN node.children}
         \cup UNION {visit(node.keywords[i]) : i \in DOMAIN node.keywords}

\* parse_deps_used (parse_deps_used_new) for a method whose source parses to
\* ast_tree: frozenset(dep_finder.deps_calls).
parse_deps_used(ast_tree) == visit(ast_tree)

\* ----------------------------------------------------- Service definition

\* The body of a class statement, class S(Service): ..., as ServiceMetaclass
\* gets it:
\*   attrs    the names 'meta' and '__init__', where the body defines them
\*   deps     what the body assigns to deps: nothing ("absent"), Needs(ports)
\*            ("Needs") or an object that is no Needs ("object")
\*   members  the callables the body defines, known by their position; each
\*            with the port it is tagged for ("-" when it is not tagged, its
\*            own name after @provides, the name given to @provides_with) and
\*            deps_used, what parse_deps_used finds in its source.
ClassState(attrs, deps, members) ==
    [attrs |-> attrs, deps |-> deps, members |-> members]

MemberNames == <<"m1", "m2", "m3">>

Untagged == "-"

Raised(error, attr, names) == [error |-> error, attr |-> attr, names |-> names]

NothingRaised == Raised("none", "", <<>>)

\* ServiceMetaclass.validate_overridden_attributes.
validate_overridden_attributes(state) ==
    IF "meta" \in state.attrs THEN "ServiceDefinitionError"
    ELSE IF state.deps.kind = "object" THEN "ServiceDefinitionError"
    ELSE IF "__init__" \in state.attrs THEN "ServiceDefinitionError"
    ELSE "none"

\* The loop of ServiceMetaclass.__new__ over the tagged members:
\* meta.register_provider raises DuplicateProviders for a port registered
\* before. (The port names of the model pass assert_valid_port_name.)
RECURSIVE RegisterTaggedFrom(_, _, _)
RegisterTaggedFrom(state, i, meta) ==
    IF i > Len(state.members) THEN [error |-> "none", meta |-> meta]
    ELSE LET port == state.members[i].port
         IN  IF port = Untagged THEN RegisterTaggedFrom(state, i + 1, meta)
             ELSE IF port \in DOMAIN meta
             THEN [error |-> "DuplicateProviders", meta |-> EmptyMap]
             ELSE RegisterTaggedFrom(state, i + 1,
                                     [n \in {port} |-> MemberNames[i]] @@ meta)

\* The validation that passes over the needs no member uses.
RECURSIVE ValidateFrom_ignoring_unused(_, _, _, _)
ValidateFrom_ignoring_unused(state, needs_ports_defined, order, all_deps_used) ==
    IF order = <<>> THEN NothingRaised
    ELSE LET deps_used == state.members[Head(order)].deps_used
             invalid_ports == (deps_used \ needs_ports_defined) \ RESERVED_PORT_NAMES
         IN  IF invalid_ports # {}
             THEN Raised("UnknownPort", MemberNames[Head(order)], sorted(invalid_ports))
             ELSE ValidateFrom_ignoring_unused(state, needs_ports_defined, Tail(order),
                                               all_deps_used \cup deps_used)

\* ServiceMetaclass.validate_deps_declaration_and_usage; order is the order
\* in which class_state.iteritems() yields the callables. The first member
\* found to use a name that is neither declared nor reserved raises
\* UnknownPort; after the loop, declared needs that no member used raise
\* UnusedPort.
RECURSIVE ValidateFrom(_, _, _, _)
ValidateFrom(state, needs_ports_defined, order, all_deps_used) ==
    IF order = <<>>
    THEN LET unused_needs == needs_ports_defined \ all_deps_used
         IN  IF unused_needs # {}
             THEN Raised("UnusedPort", "", sorted(unused_needs))
             ELSE NothingRaised
    ELSE LET deps_used == state.members[Head(order)].deps_used
             invalid_ports == (deps_used \ needs_ports_defined) \ RESERVED_PORT_NAMES
         IN  IF invalid_ports # {}
             THEN Raised("UnknownPort", MemberNames[Head(order)], sorted(invalid_ports))
             ELSE ValidateFrom(state, needs_ports_defined, Tail(order),
                               all_deps_used \cup deps_used)

validate_deps_declaration_and_usage(state, order) ==
    ValidateFrom(state,
                 IF state.deps.kind = "Needs" THEN state.deps.ports ELSE {},
                 order, {})

\* ServiceMetaclass.__new__: the class produced, or what was raised.
ServiceMetaclass(state, order) ==
    IF validate_overridden_attributes(state) # "none"
    THEN [raised |-> Raised(validate_overridden_attributes(state), "", <<>>),
          cls |-> NoClass]
    ELSE Let([reg \in {RegisterTaggedFrom(state, 1, EmptyMap)} |->
        IF reg.error # "none"
        THEN [raised |-> Raised(reg.error, "", <<>>), cls |-> NoClass]
        ELSE Let([checked \in {validate_deps_declaration_and_usage(state, order)} |->
            IF checked.error # "none"
            THEN [raised |-> checked, cls |-> NoClass]
            ELSE [raised |-> NothingRaised,
                  cls |-> Component("Service",
                                    IF state.deps.kind = "Needs"
                                    THEN state.deps.ports ELSE {},
                                    reg.meta, <<>>, NoValue)]])])

\* ------------------------------------------------------ Domain definition

\* __provides__ of a Domain definition: a list of port names, or an
\* AutoProvide whose pattern accepts the names in `accepts`.
ProvidesList(names) == [auto |-> FALSE, names |-> names, accepts |-> {}]
AutoProvide(accepts) == [auto |-> TRUE, names |-> <<>>, accepts |-> accepts]

\* The registration loop leaving after the first port.
RegisterProvidesFrom_first_only(discovered, provides_ports, meta) ==
    IF provides_ports = <<>> THEN [error |-> "none", meta |-> meta]
    ELSE LET port == Head(provides_ports)
         IN  [error |-> "none", meta |-> [n \in {port} |-> discovered.provides[port]]]

\* The loop of DomainMetaclass.__new__ that registers the declared provides:
\* a provider that is no Service or Domain class raises DomainDefinitionError,
\* DomainProviderMetadata.register_provider raises DuplicateProviders for a
\* name registered before.
RECURSIVE RegisterProvidesFrom(_, _, _)
RegisterProvidesFrom(discovered, provides_ports, meta) ==
    IF provides_ports = <<>> THEN [error |-> "none", meta |-> meta]
    ELSE LET port     == Head(provides_ports)
             provider == discovered.provides[port]
         IN  IF world(provider).kind \notin {"Service", "Domain"}
             THEN [error |-> "DomainDefinitionError", meta |-> EmptyMap]
             ELSE IF port \in DOMAIN meta
             THEN [error |-> "DuplicateProviders", meta |-> EmptyMap]
             ELSE RegisterProvidesFrom(discovered, Tail(provides_ports),
                                       [n \in {port} |-> provider] @@ meta)

\* inspect.getargspec(func) of the template functions of the model. A Service
\* class <<"shape", n, m, interface>> declares its needs Names(n) as
\*   "Needs"  deps = Needs([...]), no template function
\*   "*"      a NeedsInterface whose methods are def port(self, *args, **kwargs)
\*   "a"      a NeedsInterface whose methods are def port(self, a)
\*   "ab"     a NeedsInterface whose methods are def port(self, a, b=10)
\* and every other class of the model declares its needs with Needs([...]).
ArgSpec(args, varargs, keywords, defaults) ==
    [args |-> args, varargs |-> varargs, keywords |-> keywords,
     defaults |-> defaults]

\* service.unknown_interface(self, *args, **kwargs).
unknown_interface ==
    [owner |-> <<>>, name |-> "unknown_interface",
     argspec |-> ArgSpec(<<"self">>, "args", "kwargs", "None")]

\* GENERIC_ARGSPEC = inspect.getargspec(unknown_interface).
GENERIC_ARGSPEC == unknown_interface.argspec

getargspec(func) == func.argspec

\* The function a NeedsInterface class body defines for port.
InterfaceMethod(service, port) ==
    [owner |-> service, name |-> port,
     argspec |-> CASE service[4] = "*"  -> ArgSpec(<<"self">>, "args", "kwargs", "None")
                   [] service[4] = "a"  -> ArgSpec(<<"self", "a">>, "None", "None", "None")
                   [] service[4] = "ab" -> ArgSpec(<<"self", "a", "b">>, "None", "None", "10")]

\* service.get_template_funcs(service) for a component class: the functions
\* of its NeedsInterface, or (AttributeError, deps has no
\* _needs_template_funcs) unknown_interface for every need. A Domain class
\* has the templates its definition retained, unknown_interface for the
\* Domain classes of the model, whose children use Needs([...]).
get_template_funcs(service) ==
    IF service[1] = "shape" /\ Len(service) = 4 /\ service[4] # "Needs"
    THEN [port \in get_needs(service) |-> InterfaceMethod(service, port)]
    ELSE [port \in get_needs(service) |-> unknown_interface]

\* The template check raising for any two needers whose specs differ, the
\* generic one like any other.
_assert_providers_compatible_comparing_all(providers_, port_name) ==
    LET func_map == [provider \in Range(providers_) |->
                        get_template_funcs(provider)[port_name]]
        specs    == {getargspec(func_map[p]) : p \in DOMAIN func_map}
    IN  IF Cardinality(specs) > 1
        THEN [error |-> "InconsistentInterface", funcs |-> {}]
        ELSE [error |-> "none", funcs |-> Range(func_map)]

\* DomainMetaclass._assert_providers_compatible_and_extract_template_func:
\* the error raised or, in funcs, the functions of which one is returned (the
\* first of a dict, whichever the build iterates first).
_assert_providers_compatible_and_extract_template_func(providers_, port_name) ==
    LET func_map == [provider \in Range(providers_) |->
                        get_template_funcs(provider)[port_name]]
        spec_map == [provider \in DOMAIN func_map |-> getargspec(func_map[provider])]
        non_generic_specs ==
            [provider \in {p \in DOMAIN spec_map : spec_map[p] # GENERIC_ARGSPEC}
                |-> spec_map[provider]]
    IN  IF DOMAIN non_generic_specs = {}
        THEN [error |-> "none", funcs |-> Range(func_map)]
        ELSE IF Cardinality(Range(non_generic_specs)) > 1
        THEN [error |-> "InconsistentInterface", funcs |-> {}]
        ELSE [error |-> "none",
              funcs |-> {func_map[p] : p \in DOMAIN non_generic_specs}]

\* What a Domain class statement gave: the error raised or the class, and
\* deps._needs_template_funcs, for every port the candidates for its template.
Defined(error, cls, template_funcs) ==
    [error |-> error, cls |-> cls, template_funcs |-> template_funcs]

\* DomainMetaclass.__new__ for __services__ = services and __provides__ =
\* provides.
DomainMetaclass(services, provides) ==
    Let([discovered \in {AutoDiscoverConnections(services)} |->
        IF discovered.error # "none"
        THEN Defined(discovered.error, NoClass, EmptyMap)
        ELSE IF /\ ~provides.auto
                /\ \E i \in DOMAIN provides.names :
                      provides.names[i] \notin Range(discovered_provides(discovered))
        THEN Defined("DomainDefinitionError", NoClass, EmptyMap)
        ELSE LET provides_ports ==
                     IF provides.auto
                     THEN SelectSeq(discovered_provides(discovered),
                                    LAMBDA n : n \in provides.accepts)
                     ELSE provides.names
                 deps == Range(unsatisfied_needs(discovered))
             IN  Let([template_funcs \in
                        {[port \in deps |->
                            _assert_providers_compatible_and_extract_template_func(
                                discovered.needs[port], port)]} |->
                 IF \E port \in deps : template_funcs[port].error # "none"
                 THEN Defined("InconsistentInterface", NoClass, EmptyMap)
                 ELSE Let([reg \in {RegisterProvidesFrom(discovered, provides_ports, EmptyMap)} |->
                     IF reg.error # "none"
                     THEN Defined(reg.error, NoClass, EmptyMap)
                     ELSE Defined("none",
                                  Component("Domain", deps, reg.meta,
                                            services, NoValue),
                                  [port \in deps |-> template_funcs[port].funcs])])])])

\* The public members of every Domain: the attributes of the class Domain and
\* those Domain.__init__ sets on the instance.
DomainMembers ==
    {"get_needs", "get_provides", "set_provider", "get_provider",
     "get_provider_func", "get_provider_flag", "get_provider_flags", "deps",
     "meta"}

\* hasattr(c, name) for a Domain class or instance c and a public name: a
\* member of Domain, or a method DomainMetaclass generated for a provided port
\* (state[port] = generate_domain_method(...)).
hasattr(c, name) ==
    name \in DomainMembers \cup DOMAIN world(c).meta

\* ---------------------------------------------------------- instantiation

NoState == State(EmptyMap, EmptyMap)

\* Service.__init__ / Domain.__init__ / the adapters' constructors: the
\* connection state st with the new instance c added to it.
\*   Service: INeed.__init__ and an own replica of the class-level deps.
\*   Domain:  INeed.__init__, the children instantiated, then the connections
\*            discovered among the child instances wired up (none of these
\*            bindings can fail on new children, so the order is immaterial).
RECURSIVE __init__(_, _)
RECURSIVE InstantiateAll(_, _)
InstantiateAll(st, components) ==
    IF components = <<>> THEN st
    ELSE InstantiateAll(__init__(st, Head(components)), Tail(components))

\* Domain.__init__ that leaves out wire_up_discovered_connections.
__init___without_wiring(st, c) ==
    CASE world(c).kind = "Service" ->
            State([i \in {c} |-> replicate([ports |-> world(c).deps,
                                            attrs |-> EmptyMap])] @@ st.slots,
                  [i \in {c} |-> EmptyMap] @@ st.providers)
      [] world(c).kind = "Domain" ->
            InstantiateAll(State(st.slots, [i \in {c} |-> EmptyMap] @@ st.providers),
                           world(c).services)
      [] OTHER -> st

__init__(st, c) ==
    CASE world(c).kind = "Service" ->
            State([i \in {c} |-> replicate([ports |-> world(c).deps,
                                            attrs |-> EmptyMap])] @@ st.slots,
                  [i \in {c} |-> EmptyMap] @@ st.providers)
      [] world(c).kind = "Domain" ->
            LET born == InstantiateAll(
                           State(st.slots, [i \in {c} |-> EmptyMap] @@ st.providers),
                           world(c).services)
            IN  Let([discovered \in {AutoDiscoverConnections(world(c).services)} |->
                    wire_up_discovered_connections(
                        born, connections(discovered,
                                          discovered_needs(discovered))).st])
      [] OTHER -> st

\* ------------------------------------------------------------ PortPatcher

\* mock.Mock(spec_set=provider, wraps=wrapped): the mock provider.
Mock(spec_set, wraps) == Value("mock", <<>>, "mock_provider")

\* mock.patch.object(target, attribute, new), target being the deps of a
\* Service instance; temp_original is what start() found in its place.
patch_object(target, attribute, new) ==
    [target |-> target, attribute |-> attribute, new |-> new,
     temp_original |-> NoValue]

\* self._patches: a list of patches, or None.
Patches(kind, items) == [kind |-> kind, items |-> items]

\* PortPatcher._find_services_that_needs_port: a Service that needs the port,
\* or what is found in the children of the service map.
RECURSIVE _find_services_that_needs_port(_, _)
RECURSIVE FindInEach(_, _)
FindInEach(children, port_name) ==
    IF children = <<>> THEN <<>>
    ELSE _find_services_that_needs_port(Head(children), port_name)
         \o FindInEach(Tail(children), port_name)

_find_services_that_needs_port(component, port_name) ==
    IF world(component).kind = "Service" /\ port_name \in get_needs(component)
    THEN <<component>>
    ELSE FindInEach(world(component).services, port_name)

\* PortPatcher._get_common_provider, from the services left to look at and
\* the provider seen so far (NoValue for None).
RECURSIVE CommonProviderFrom(_, _, _, _)
CommonProviderFrom(st, services, port_name, provider) ==
    IF services = <<>> THEN ProviderFunc("none", provider)
    ELSE IF is_disconnected_port(st.slots[Head(services)], port_name).value
    THEN ProviderFunc("DisconnectedPort", NoValue)
    ELSE LET port_method == st.slots[Head(services)].attrs[port_name]
         IN  IF provider # NoValue /\ provider # port_method
             THEN ProviderFunc("IncompatibleProvider", NoValue)
             ELSE CommonProviderFrom(st, Tail(services), port_name, port_method)

_get_common_provider(st, services, port_name) ==
    CommonProviderFrom(st, services, port_name, NoValue)

Patched(error, self, st, returned) ==
    [error |-> error, self |-> self, st |-> st, returned |-> returned]

\* PortPatcher.__init__: the patcher, or the error raised.
PortPatcher(st, component, port_name, wraps_provider) ==
    Let([targets \in {_find_services_that_needs_port(component, port_name)} |->
        IF targets = <<>> THEN Patched("UnknownPort", <<>>, st, NoValue)
        ELSE Let([common \in {_get_common_provider(st, targets, port_name)} |->
                 IF common.error # "none"
                 THEN Patched(common.error, <<>>, st, NoValue)
                 ELSE Patched("none",
                              [component |-> component, port_name |-> port_name,
                               wraps_provider |-> wraps_provider,
                               _patches |-> Patches("list", <<>>),
                               is_started |-> FALSE,
                               provider |-> common.func,
                               targets |-> targets],
                              st, NoValue)])])

\* for patcher in self._patches: patcher.start(): the attribute found is
\* kept, the new one set in its place.
RECURSIVE StartEach(_, _, _)
StartEach(st, patches, started) ==
    IF patches = <<>> THEN [st |-> st, patches |-> started]
    ELSE LET p == Head(patches)
         IN  StartEach(
                 [st EXCEPT !.slots[p.target] = setattr(@, p.attribute, p.new)],
                 Tail(patches),
                 Append(started,
                        [p EXCEPT !.temp_original =
                            st.slots[p.target].attrs[p.attribute]]))

\* PortPatcher.start.
start(st, self) ==
    IF self.is_started
    THEN Patched("RuntimeError: patch already started", self, st, NoValue)
    ELSE LET wrapped == IF self.wraps_provider THEN self.provider ELSE NoValue
             mock_provider == Mock(self.provider, wrapped)
             patches == [i \in DOMAIN self.targets |->
                            patch_object(self.targets[i], self.port_name,
                                         mock_provider)]
         IN  Let([r \in {StartEach(st, patches, <<>>)} |->
                 Patched("none",
                         [self EXCEPT !._patches = Patches("list", r.patches),
                                      !.is_started = TRUE],
                         r.st, mock_provider)])

\* for patcher in self._patches: patcher.stop(): the attribute kept by start
\* is set again.
RECURSIVE StopEach(_, _)
StopEach(st, patches) ==
    IF patches = <<>> THEN st
    ELSE LET p == Head(patches)
         IN  StopEach([st EXCEPT !.slots[p.target] =
                          setattr(@, p.attribute, p.temp_original)],
                      Tail(patches))

\* stop that leaves the patched attributes in place.
stop_restoring_nothing(st, self) ==
    IF ~self.is_started
    THEN Patched("RuntimeError: patcher not yet started", self, st, NoValue)
    ELSE IF self._patches.kind = "None"
    THEN Patched("TypeError", self, st, NoValue)
    ELSE Patched("none",
                 [self EXCEPT !._patches = Patches("None", <<>>),
                              !.is_started = TRUE],
                 st, NoValue)

\* PortPatcher.stop: iterating self._patches when it is None raises
\* TypeError; the last statement sets is_started to True.
stop(st, self) ==
    IF ~self.is_started
    THEN Patched("RuntimeError: patcher not yet started", self, st, NoValue)
    ELSE IF self._patches.kind = "None"
    THEN Patched("TypeError", self, st, NoValue)
    ELSE Patched("none",
                 [self EXCEPT !._patches = Patches("None", <<>>),
                              !.is_started = TRUE],
                 StopEach(st, self._patches.items), NoValue)

\* --------------------------------------------------------- specifications

\* class D(Domain): __services__ = [XS, HS]; __provides__ = ['x'].
DomainD == DomainMetaclass(<<(<<"XS">>), (<<"HS">>)>>, ProvidesList(<<"x">>)).cls

\* The live components of the wiring scenario, freshly instantiated.
Fresh == InstantiateAll(NoState, <<(<<"a">>), (<<"b">>), (<<"c">>), (<<"d">>),
                                  (<<"g">>)>>)

Invocation(op, args, error) == [op |-> op, args |-> args, error |-> error]

NoResult == [kind |-> "none"]

Init ==
    /\ classes = [cls \in {<<"D">>} |-> DomainD]
    /\ instances =
          [c \in TopLevel \cup UNION {Range(instance_of(t).services) : t \in TopLevel}
              |-> instance_of(c)]
    /\ \E fresh \in {Fresh} :
          /\ slots = fresh.slots
          /\ providers = fresh.providers
    /\ port_array = PortArray
    /\ replica = <<>>
    /\ shadow = <<>>
    /\ patcher = <<>>
    /\ last = Invocation("none", <<>>, "none")
    /\ result = NoResult
    /\ since = EmptyMap
    /\ wired = [phase |-> "fresh", prior |-> <<>>]

IsPrefix(s, t) == Len(s) <= Len(t) /\ SubSeq(t, 1, Len(s)) = s

\* ---- discovery, as a function of the component list

\* discovered = AutoDiscoverConnections(components), for a list of classes.
\* (Discovery is a function of the list alone: it is applied once.)
Discover(components) ==
    /\ last.op = "none"
    /\ \E discovered \in {AutoDiscoverConnections(components)} :
        /\ last' = Invocation("AutoDiscoverConnections",
                              [components |-> components], discovered.error)
        /\ result' = discovered
        /\ UNCHANGED <<shadow, patcher, classes, instances, replica, slots, providers, port_array, since, wired>>

\* class X(Domain): __services__ = services; __provides__ = provides.
DefineDomain(services, provides) ==
    /\ last.op = "none"
    /\ \E defined \in {DomainMetaclass(services, provides)} :
        /\ last' = Invocation("DomainMetaclass",
                              [services |-> services, provides |-> provides],
                              defined.error)
        /\ result' = defined.cls
        /\ UNCHANGED <<shadow, patcher, classes, instances, replica, slots, providers, port_array, since, wired>>

\* The __provides__ of the Domain definitions tried.
ProvidesChoices ==
    {ProvidesList(names) : names \in BoundedSeq({"p", "q"}, 2)}
    \cup {AutoProvide(accepts) : accepts \in {{"p", "q"}, {"p"}}}

NextDiscover ==
    \/ /\ last.op = "none"
       /\ \E components \in BoundedSeq(Shapes, MaxList) : Discover(components)
    \/ /\ last.op = "none"
       /\ \E services \in BoundedSeq(Shapes, MaxServices), provides \in ProvidesChoices :
             DefineDomain(services, provides)

SpecDiscover == Init /\ [][NextDiscover]_vars

\* ---- wiring of live components

\* auto_wire(components, expect_all_ports_connected). The needs of the
\* discovery are iterated in any order; a needed port that nothing provides
\* yields no connection, so only the order of the others is drawn.
AutoWire(components, expect_all_ports_connected) ==
    \E discovered \in {AutoDiscoverConnections(components)} :
     \E order \in Orders(DOMAIN discovered.needs \cap DOMAIN discovered.provides) :
      \E r \in {auto_wire(State(slots, providers), components,
                           expect_all_ports_connected, order)} :
        LET failed_strict == expect_all_ports_connected /\ r.error = "DisconnectedPort"
        IN  /\ slots' = r.st.slots
            /\ providers' = r.st.providers
            /\ last' = Invocation("auto_wire",
                                  [components |-> components,
                                   expect_all_ports_connected |-> expect_all_ports_connected],
                                  r.error)
            /\ result' = [kind |-> "message", names |-> r.message]
            /\ wired' =
                 IF wired.phase \in {"fresh", "failed"} /\ failed_strict
                 THEN [phase |-> "failed", prior |-> components]
                 ELSE IF /\ wired.phase = "failed"
                         /\ expect_all_ports_connected
                         /\ IsPrefix(wired.prior, components)
                 THEN [phase |-> "retried", prior |-> wired.prior]
                 ELSE [phase |-> "other", prior |-> <<>>]
            /\ UNCHANGED <<shadow, patcher, classes, instances, replica, port_array, since>>

\* consumer.set_provider(port_name, provider).
SetProvider(consumer, port_name, provider) ==
    \E r \in {set_provider(State(slots, providers), consumer, port_name, provider)} :
        /\ slots' = r.st.slots
        /\ providers' = r.st.providers
        /\ last' = Invocation("set_provider",
                              [consumer |-> consumer, port_name |-> port_name,
                               provider |-> provider], r.error)
        /\ result' = NoResult
        /\ wired' = [phase |-> "other", prior |-> <<>>]
        /\ UNCHANGED <<shadow, patcher, classes, instances, replica, port_array, since>>

\* The port names of the wiring scenario.
WiringPorts == {"a1", "b1", "c1", "hidden", "x"}

Next ==
    \/ \E components \in BoundedSeq(TopLevel, MaxWire), strict \in BOOLEAN :
          AutoWire(components, strict)
    \/ \E consumer \in {c \in TopLevel : has_get_needs(c)},
          port_name \in WiringPorts, provider \in TopLevel :
          SetProvider(consumer, port_name, provider)

Spec == Init /\ [][Next]_vars

\* ---- a strict auto_wire of fresh components, tried again after it failed

NextRetry ==
    \/ \E components \in BoundedSeq(TopLevel, MaxRetry) :
          /\ wired.phase = "fresh"
          /\ AutoWire(components, TRUE)
    \/ \E components \in BoundedSeq(TopLevel, MaxRetry) :
          /\ wired.phase = "failed"
          /\ IsPrefix(wired.prior, components)
          /\ AutoWire(components, TRUE)

SpecRetry == Init /\ [][NextRetry]_vars

\* ---- discovery and wiring, for a list in any order

\* One discovery over a list of classes, or one strict auto_wire of fresh
\* components.
NextPermute ==
    \/ /\ last.op = "none"
       /\ \E components \in BoundedSeq(Shapes, MaxList) : Discover(components)
    \/ \E components \in BoundedSeq(TopLevel, MaxRetry) :
          /\ wired.phase = "fresh"
          /\ last.op = "none"
          /\ AutoWire(components, TRUE)

SpecPermute == Init /\ [][NextPermute]_vars

\* ---- two instances of one class

\* The live components of the scenario: two instances of Service A, two of
\* Domain D, and C, which provides what the children of D need.
TwoOfEach == {<<"a">>, <<"a2">>, <<"c">>, <<"d">>, <<"d2">>}

\* Their classes, and the classes of the children of D.
TwoOfEachClasses == {<<"A">>, <<"C">>, <<"D">>, <<"XS">>, <<"HS">>}

\* The state after the class statements and the constructors have run: the
\* class-level deps of every class (the Needs of a Service class, the
\* PortArray DomainMetaclass made for a Domain class) are in slots under the
\* class, next to the own arrays of the instances.
InitInstances ==
    /\ classes = [cls \in {<<"D">>} |-> DomainD]
    /\ instances =
          [c \in TwoOfEach \cup UNION {Range(instance_of(t).services) : t \in TwoOfEach}
              |-> instance_of(c)]
    /\ \E fresh \in {InstantiateAll(NoState, <<(<<"a">>), (<<"a2">>), (<<"c">>),
                                                (<<"d">>), (<<"d2">>)>>)} :
          /\ slots = [cls \in TwoOfEachClasses |->
                         Needs(class_definition(cls).deps)] @@ fresh.slots
          /\ providers = fresh.providers
    /\ port_array = PortArray
    /\ replica = <<>>
    /\ shadow = <<>>
    /\ patcher = <<>>
    /\ last = Invocation("none", <<>>, "none")
    /\ result = NoResult
    /\ since = EmptyMap
    /\ wired = [phase |-> "fresh", prior |-> <<>>]

\* The names that a component of the scenario provides.
InstancePorts == {"c1", "x"}

NextInstances ==
    \/ \E components \in BoundedSeq(TwoOfEach, MaxWire) :
          AutoWire(components, FALSE)
    \/ \E consumer \in {c \in TwoOfEach : get_needs(c) # {}},
          port_name \in InstancePorts, provider \in TwoOfEach :
          SetProvider(consumer, port_name, provider)

SpecInstances == InitInstances /\ [][NextInstances]_vars

\* ---- a Domain class is defined, then instantiated

\* The classes tried as __services__ of Domain X: the Service shapes and the
\* Domain D; and what is tried as its __provides__.
ChildClasses == Shapes \cup {<<"D">>}

DomainProvides ==
    {ProvidesList(names) : names \in BoundedSeq({"p", "q", "x"}, 2)}
    \cup {AutoProvide(accepts) : accepts \in {{"p", "q", "x"}, {"p", "q"}, {"p"}}}

\* class X(Domain): __services__ = services; __provides__ = provides. The
\* class exists when the class statement raised nothing.
DefineX(services, provides) ==
    /\ \E defined \in {DomainMetaclass(services, provides)} :
          /\ classes' = IF defined.error = "none"
                        THEN [cls \in {<<"X">>} |-> defined.cls] @@ classes
                        ELSE classes
          /\ last' = Invocation("DomainMetaclass",
                                [services |-> services, provides |-> provides],
                                defined.error)
          /\ result' = defined.cls
    /\ UNCHANGED <<shadow, patcher, instances, replica, slots, providers, port_array, since, wired>>

\* x = X().
InstantiateX ==
    /\ <<"X">> \in DOMAIN classes
    /\ <<"x">> \notin DOMAIN providers
    /\ \E born \in {__init__(State(slots, providers), <<"x">>)} :
          /\ slots' = born.slots
          /\ providers' = born.providers
          /\ instances' = [c \in DOMAIN born.providers \ DOMAIN providers |->
                             instance_of(c)] @@ instances
    /\ last' = Invocation("Domain.__init__", <<>>, "none")
    /\ result' = NoResult
    /\ UNCHANGED <<shadow, patcher, classes, replica, port_array, since, wired>>

NextDomain ==
    \/ /\ last.op = "none"
       /\ \E services \in BoundedSeq(ChildClasses, MaxServices),
             provides \in DomainProvides :
             DefineX(services, provides)
    \/ InstantiateX

SpecDomain == Init /\ [][NextDomain]_vars

\* ---- a Domain nested in a Domain, wired with other components

\* The longest component list handed to auto_wire here.
MaxNested == 3

\* Domain X holds Domain D, alone or next to B and C.
NestedServices ==
    {<<(<<"D">>)>>, <<(<<"D">>), (<<"B">>)>>, <<(<<"D">>), (<<"C">>)>>,
     <<(<<"D">>), (<<"B">>), (<<"C">>)>>}

NestedProvides == {ProvidesList(<<"x">>), ProvidesList(<<"x", "b1">>)}

\* The live components: those of the wiring scenario, and x = X().
NestedTopLevel == TopLevel \cup {<<"x">>}

\* One definition of X, one x = X(), then one strict auto_wire, all
\* components being as their constructors left them.
NextNested ==
    \/ /\ last.op = "none"
       /\ \E services \in NestedServices, provides \in NestedProvides :
             DefineX(services, provides)
    \/ InstantiateX
    \/ \E components \in BoundedSeq(NestedTopLevel, MaxNested) :
          /\ wired.phase = "fresh"
          /\ <<"x">> \in DOMAIN providers
          /\ AutoWire(components, TRUE)

SpecNested == Init /\ [][NextNested]_vars

\* ---- a Domain class is defined over children with needs interfaces

\* The longest __services__ tried here.
MaxChildren == 3

\* The children tried: Services that need p, by Needs(['p']) or by a
\* NeedsInterface of each signature; one that needs p and q and one that needs
\* q, with interfaces; and one that provides p.
InterfaceShapes ==
    {<<"shape", "p", "-", interface>> : interface \in {"Needs", "*", "a", "ab"}}
    \cup {<<"shape", "pq", "-", "a">>, <<"shape", "q", "-", "ab">>,
          <<"shape", "-", "p", "Needs">>}

\* class X(Domain): __services__ = services; __provides__ = provides.
DefineOverInterfaces(services, provides) ==
    /\ last.op = "none"
    /\ \E defined \in {DomainMetaclass(services, provides)} :
        /\ last' = Invocation("DomainMetaclass",
                              [services |-> services, provides |-> provides],
                              defined.error)
        /\ result' = defined
    /\ UNCHANGED <<shadow, patcher, classes, instances, replica, slots,
                   providers, port_array, since, wired>>

NextInterfaces ==
    \E services \in BoundedSeq(InterfaceShapes, MaxChildren),
       provides \in {ProvidesList(<<>>), AutoProvide({"p"})} :
        DefineOverInterfaces(services, provides)

SpecInterfaces == Init /\ [][NextInterfaces]_vars

\* ---- ports patched for a test

\* The components handed to patch_port / wrap_port, and the port names.
PatchedComponents == {<<"x">>, <<"a">>, <<"b">>, <<"c">>}

PatchedPorts == {"c1", "hidden", "b1", "x"}

\* patcher = PortPatcher(component, port_name, wraps_provider), once the
\* components are wired as far as they will be.
NewPortPatcher(component, port_name, wraps_provider) ==
    /\ patcher = <<>>
    /\ <<"x">> \in DOMAIN providers
    /\ \E r \in {PortPatcher(State(slots, providers), component, port_name,
                             wraps_provider)} :
          /\ patcher' = IF r.error = "none" THEN <<r.self>> ELSE patcher
          /\ last' = Invocation("PortPatcher",
                                [component |-> component, port_name |-> port_name,
                                 wraps_provider |-> wraps_provider], r.error)
    /\ result' = NoResult
    /\ UNCHANGED <<shadow, classes, instances, replica, slots, providers,
                   port_array, since, wired>>

\* patcher.start().
Start ==
    /\ patcher # <<>>
    /\ \E r \in {start(State(slots, providers), patcher[1])} :
          /\ patcher' = <<r.self>>
          /\ slots' = r.st.slots
          /\ last' = Invocation("start", <<>>, r.error)
          /\ result' = r.returned
    /\ UNCHANGED <<shadow, classes, instances, replica, providers, port_array,
                   since, wired>>

\* patcher.stop().
Stop ==
    /\ patcher # <<>>
    /\ \E r \in {stop(State(slots, providers), patcher[1])} :
          /\ patcher' = <<r.self>>
          /\ slots' = r.st.slots
          /\ last' = Invocation("stop", <<>>, r.error)
          /\ result' = r.returned
    /\ UNCHANGED <<shadow, classes, instances, replica, providers, port_array,
                   since, wired>>

\* X is defined and instantiated, the components are wired once, ports are
\* patched and the patcher started and stopped any number of times.
NextPatch ==
    \/ /\ last.op = "none"
       /\ \E services \in NestedServices : DefineX(services, ProvidesList(<<"x">>))
    \/ InstantiateX
    \/ \E components \in BoundedSeq(NestedTopLevel \ {<<"d">>, <<"g">>}, MaxWire) :
          /\ wired.phase = "fresh"
          /\ patcher = <<>>
          /\ last.op # "PortPatcher"
          /\ <<"x">> \in DOMAIN providers
          /\ AutoWire(components, FALSE)
    \/ \E component \in PatchedComponents, port_name \in PatchedPorts,
          wraps_provider \in BOOLEAN :
          NewPortPatcher(component, port_name, wraps_provider)
    \/ Start
    \/ Stop

SpecPatch == Init /\ [][NextPatch]_vars

\* ---- the deps of a Domain instance, a ShadowPortArray

\* What is tried as __services__ of X: the Domain D beside two Services, of
\* which B needs c1 as D does; two Services that both need p; two Services
\* that both need p, one providing the q the other needs.
ShadowServices ==
    {<<(<<"D">>), (<<"A">>), (<<"B">>)>>,
     <<(<<"shape", "pq", "-">>), (<<"shape", "p", "-">>)>>,
     <<(<<"shape", "pq", "-">>), (<<"shape", "p", "q">>)>>}

ShadowPorts == {"a1", "c1", "hidden", "p", "q", "x"}

ShadowFuncs ==
    {Value("function", <<>>, "f"), Value("lambda", <<>>, "g"),
     Value("object", <<>>, "o")}

\* The providers handed to x.set_provider: the live C, which provides c1, and
\* a live Service that provides p.
ShadowProviders == {<<"c">>, <<"t", "shape", "-", "p">>}

\* x.deps.connect_port(port_name, func).
DepsConnectPort(port_name, func) ==
    /\ <<"x">> \in DOMAIN providers
    /\ \E r \in {deps_connect_port(State(slots, providers), <<"x">>, port_name, func)} :
          /\ slots' = r.st.slots
          /\ providers' = r.st.providers
          /\ last' = Invocation("deps.connect_port",
                                [port_name |-> port_name, func |-> func], r.error)
    /\ result' = NoResult
    /\ UNCHANGED <<shadow, patcher, classes, instances, replica, port_array, since, wired>>

\* x.deps.disconnect_port(port_name).
DepsDisconnectPort(port_name) ==
    /\ <<"x">> \in DOMAIN providers
    /\ \E r \in {deps_disconnect_port(State(slots, providers), <<"x">>, port_name)} :
          /\ slots' = r.st.slots
          /\ providers' = r.st.providers
          /\ last' = Invocation("deps.disconnect_port",
                                [port_name |-> port_name], r.error)
    /\ result' = NoResult
    /\ UNCHANGED <<shadow, patcher, classes, instances, replica, port_array, since, wired>>

NextShadow ==
    \/ /\ last.op = "none"
       /\ \E services \in ShadowServices :
             DefineX(services, AutoProvide({"p", "q", "x"}))
    \/ InstantiateX
    \/ \E port_name \in ShadowPorts, func \in ShadowFuncs :
          DepsConnectPort(port_name, func)
    \/ \E port_name \in ShadowPorts : DepsDisconnectPort(port_name)
    \/ /\ <<"x">> \in DOMAIN providers
       /\ \E port_name \in ShadowPorts, provider \in ShadowProviders :
             SetProvider(<<"x">>, port_name, provider)

SpecShadow == Init /\ [][NextShadow]_vars

\* ---- a Service class is defined

\* Most callables in the body of the class statement.
MaxMembers == 2

\* The names declared as needs, and those found in the callables: the
\* declared ones and a reserved one, self.deps.get_ports().
NeedNames == {"p", "q"}

UsedNames == NeedNames \cup {"get_ports"}

DepsDeclared ==
    {[kind |-> "absent", ports |-> {}], [kind |-> "object", ports |-> {}]}
    \cup {[kind |-> "Needs", ports |-> ports] : ports \in SUBSET NeedNames}

Members ==
    [port : {Untagged, "x", "a1"}, deps_used : SUBSET UsedNames]

ClassStates ==
    {ClassState(attrs, deps, members) :
        attrs \in {{}, {"meta"}, {"__init__"}},
        deps \in DepsDeclared,
        members \in BoundedSeq(Members, MaxMembers)}

\* class S(Service): <state>. The class exists when the class statement
\* raised nothing.
DefineService(state, order) ==
    /\ \E defined \in {ServiceMetaclass(state, order)} :
          /\ classes' = IF defined.raised.error = "none"
                        THEN [cls \in {<<"S">>} |-> defined.cls] @@ classes
                        ELSE classes
          /\ last' = Invocation("ServiceMetaclass",
                                [state |-> state, order |-> order,
                                 raised |-> defined.raised],
                                defined.raised.error)
          /\ result' = defined.cls
    /\ UNCHANGED <<shadow, patcher, instances, replica, slots, providers, port_array, since, wired>>

NextService ==
    /\ last.op = "none"
    /\ \E state \in ClassStates :
          \E order \in Orders(DOMAIN state.members) :
             DefineService(state, order)

SpecService == Init /\ [][NextService]_vars

\* ---- parse_deps_used on the syntax tree of a method

\* Deepest nesting of the expressions tried around a call.
MaxNesting == 2

\* self.deps
SelfDeps == ast_Attribute(ast_Name("self"), "deps")

\* The innermost expressions: a call of a port through self.deps, and what
\* is none: the port read and not called, a call under another access path
\* (blah.self.deps.b(), blah.deps.b(), self.b()), a string literal.
Innermost ==
    {ast_Call(ast_Attribute(SelfDeps, n), <<>>, <<>>) : n \in {"a", "b"}}
    \cup {ast_Attribute(SelfDeps, "b"),
          ast_Call(ast_Attribute(ast_Attribute(ast_Attribute(ast_Name("blah"), "self"), "deps"), "b"), <<>>, <<>>),
          ast_Call(ast_Attribute(ast_Attribute(ast_Name("blah"), "deps"), "b"), <<>>, <<>>),
          ast_Call(ast_Attribute(ast_Name("self"), "b"), <<>>, <<>>),
          ast_Constant("self.deps.b()")}

\* The expressions that hold e: as positional and as keyword argument of a
\* call, of a call of a port, under an operator, branch, comprehension or
\* nested function (with another expression beside it), as the receiver of a
\* chained call e.append(), called itself e(), subscripted and called e[0]().
Around(e) ==
    {ast_Call(ast_Name("f"), <<e>>, <<>>),
     ast_Call(ast_Name("f"), <<>>, <<ast_keyword(e)>>),
     ast_Call(ast_Attribute(SelfDeps, "c"), <<e>>, <<>>),
     ast_Call(ast_Attribute(e, "append"), <<>>, <<>>),
     ast_Call(e, <<>>, <<>>),
     ast_Call(ast_Other("Subscript", <<e>>), <<>>, <<>>)}
    \cup {ast_Other("BinOp", <<e, other>>) : other \in Innermost}

RECURSIVE Expressions(_)
Expressions(nesting) ==
    IF nesting = 0 THEN Innermost
    ELSE LET inner == Expressions(nesting - 1)
         IN  inner \cup UNION {Around(e) : e \in inner}

\* parse_deps_used(method), the source of method parsing to ast_tree.
ParseDepsUsed(ast_tree) ==
    /\ last' = Invocation("parse_deps_used", ast_tree, "none")
    /\ result' = [kind |-> "frozenset", names |-> parse_deps_used(ast_tree)]
    /\ UNCHANGED <<shadow, patcher, classes, instances, replica, slots, providers, port_array,
                   since, wired>>

NextParse ==
    /\ last.op = "none"
    /\ \E ast_tree \in Expressions(MaxNesting) : ParseDepsUsed(ast_tree)

SpecParse == Init /\ [][NextParse]_vars

\* ---- a ShadowPortArray over two PortArrays

\* array_a = Needs(['p', 'x']) and array_b = Needs(['q', 'x']), as the arrays
\* of tests/gasofo/test_ports.py (ShadowPortArrayTest.setUp): a port of one, a
\* port of the other and a port of both.
InitArrays ==
    /\ classes = [cls \in {<<"D">>} |-> DomainD]
    /\ instances = EmptyMap
    /\ slots = [array \in {<<"array_a">>, <<"array_b">>} |->
                   IF array = <<"array_a">> THEN Needs({"p", "x"})
                   ELSE Needs({"q", "x"})]
    /\ providers = EmptyMap
    /\ port_array = PortArray
    /\ replica = <<>>
    /\ shadow = <<>>
    /\ patcher = <<>>
    /\ last = Invocation("none", <<>>, "none")
    /\ result = NoResult
    /\ since = EmptyMap
    /\ wired = [phase |-> "fresh", prior |-> <<>>]

\* The names tried: those declared from the start, and two declared by none.
ArrayPortNames == {"p", "q", "x", "hello", "world"}

\* What is tried as func: a lambda, and an object that is not callable.
ArrayFuncs == {Value("lambda", <<>>, "f"), Value("object", <<>>, "o")}

\* shadow = ShadowPortArray([array_a, array_b], ignore_ports=ignore_ports).
NewShadow(ignore_ports) ==
    /\ shadow = <<>>
    /\ shadow' = <<ShadowPortArray(slots, <<(<<"array_a">>), (<<"array_b">>)>>,
                                   ignore_ports)>>
    /\ last' = Invocation("ShadowPortArray", [ignore_ports |-> ignore_ports],
                          "none")
    /\ result' = NoResult
    /\ UNCHANGED <<patcher, classes, instances, replica, slots, providers,
                   port_array, since, wired>>

\* array.add_port(port_name) on one of the arrays, before or after the shadow
\* was built over it.
ArrayAddPort(array, port_name) ==
    /\ \E o \in {add_port(slots[array], port_name)} :
          /\ slots' = [slots EXCEPT ![array] = o.array]
          /\ last' = Invocation("add_port",
                                [array |-> array, port_name |-> port_name],
                                o.error)
    /\ result' = NoResult
    /\ UNCHANGED <<shadow, patcher, classes, instances, replica, providers,
                   port_array, since, wired>>

\* shadow.connect_port(port_name, func).
ShadowConnectPort(port_name, func) ==
    /\ shadow # <<>>
    /\ \E r \in {shadow_connect_port(slots, shadow[1], port_name, func)} :
          /\ slots' = r.held
          /\ last' = Invocation("shadow.connect_port",
                                [port_name |-> port_name, func |-> func],
                                r.error)
    /\ result' = NoResult
    /\ UNCHANGED <<shadow, patcher, classes, instances, replica, providers,
                   port_array, since, wired>>

\* shadow.disconnect_port(port_name).
ShadowDisconnectPort(port_name) ==
    /\ shadow # <<>>
    /\ \E r \in {shadow_disconnect_port(slots, shadow[1], port_name)} :
          /\ slots' = r.held
          /\ last' = Invocation("shadow.disconnect_port",
                                [port_name |-> port_name], r.error)
    /\ result' = NoResult
    /\ UNCHANGED <<shadow, patcher, classes, instances, replica, providers,
                   port_array, since, wired>>

NextArrays ==
    \/ \E ignore_ports \in SUBSET {"p", "x", "world"} : NewShadow(ignore_ports)
    \/ \E array \in DOMAIN slots, port_name \in {"hello", "world", "x"} :
          ArrayAddPort(array, port_name)
    \/ \E port_name \in ArrayPortNames, func \in ArrayFuncs :
          ShadowConnectPort(port_name, func)
    \/ \E port_name \in ArrayPortNames : ShadowDisconnectPort(port_name)

SpecArrays == InitArrays /\ [][NextArrays]_vars

\* ---- one PortArray on its own

\* The names tried as port names: valid ones (the last ends in a newline) and
\* one that is capitalised, one that starts with an underscore, one reserved.
PortNames == {"hello", "world", "hello\n", "Hello", "_hidden", "add_port"}

\* The objects tried as the func of connect_port: one callable of every kind,
\* and an object that is not callable.
Callables ==
    {Value(kind, <<>>, "f") : kind \in {"function", "lambda", "method",
                                        "staticmethod", "classmethod",
                                        "callable_object"}}

Objects == Callables \cup {Value("object", <<>>, "o")}

\* The argument lists ports are invoked with.
Arguments == {<<>>, <<"1">>, <<"1", "2">>}

Since(func, idle) == [func |-> func, idle |-> idle]

\* port_array.add_port(port_name).
AddPort(port_name) ==
    /\ Cardinality(get_ports(port_array)) < MaxPorts
    /\ \E o \in {add_port(port_array, port_name)} :
          /\ port_array' = o.array
          /\ last' = Invocation("add_port", [port_name |-> port_name], o.error)
          /\ since' = IF o.error = "none"
                      THEN [n \in {port_name} |-> Since(<<>>, FALSE)] @@ since
                      ELSE since
    /\ result' = NoResult
    /\ UNCHANGED <<shadow, patcher, classes, instances, replica, slots, providers, wired>>

\* port_array.connect_port(port_name, func).
ConnectPort(port_name, func) ==
    /\ \E o \in {connect_port(port_array, port_name, func)} :
          /\ port_array' = o.array
          /\ last' = Invocation("connect_port",
                                [port_name |-> port_name, func |-> func], o.error)
          /\ since' = IF o.error = "none"
                      THEN [since EXCEPT ![port_name] = Since(<<func>>, FALSE)]
                      ELSE since
    /\ result' = NoResult
    /\ UNCHANGED <<shadow, patcher, classes, instances, replica, slots, providers, wired>>

\* port_array.disconnect_port(port_name).
DisconnectPort(port_name) ==
    /\ \E o \in {disconnect_port(port_array, port_name)} :
          /\ port_array' = o.array
          /\ last' = Invocation("disconnect_port", [port_name |-> port_name],
                                o.error)
          /\ since' = IF o.error = "none"
                      THEN [since EXCEPT ![port_name] =
                               Since(<<>>, since[port_name].func = <<>>)]
                      ELSE since
    /\ result' = NoResult
    /\ UNCHANGED <<shadow, patcher, classes, instances, replica, slots, providers, wired>>

\* replica = PortArray.replicate(port_array).
Replicate ==
    /\ replica' = <<replicate(port_array)>>
    /\ last' = Invocation("replicate", <<>>, "none")
    /\ result' = NoResult
    /\ UNCHANGED <<shadow, patcher, classes, instances, slots, providers, port_array, since, wired>>

\* replica.connect_port(port_name, func), on the array replicate returned.
ConnectReplica(port_name, func) ==
    /\ replica # <<>>
    /\ \E o \in {connect_port(replica[1], port_name, func)} :
          /\ replica' = <<o.array>>
          /\ last' = Invocation("replica.connect_port",
                                [port_name |-> port_name, func |-> func], o.error)
    /\ result' = NoResult
    /\ UNCHANGED <<shadow, patcher, classes, instances, slots, providers, port_array, since, wired>>

\* port_array.<port_name>(*args), for a declared port.
Invoke(port_name, args) ==
    /\ port_name \in get_ports(port_array)
    /\ \E called \in {invoke(port_array, port_name, args)} :
          /\ last' = Invocation("invoke", [port_name |-> port_name, args |-> args],
                                called.raised)
          /\ result' = called
    /\ UNCHANGED <<shadow, patcher, classes, instances, replica, slots, providers, port_array, since, wired>>

\* port_array.is_disconnected_port(port_name).
IsDisconnectedPort(port_name) ==
    /\ \E answer \in {is_disconnected_port(port_array, port_name)} :
          /\ last' = Invocation("is_disconnected_port",
                                [port_name |-> port_name], answer.error)
          /\ result' = answer
    /\ UNCHANGED <<shadow, patcher, classes, instances, replica, slots, providers, port_array, since, wired>>

NextPorts ==
    \/ \E port_name \in PortNames : AddPort(port_name)
    \/ \E port_name \in PortNames, func \in Objects : ConnectPort(port_name, func)
    \/ \E port_name \in PortNames : DisconnectPort(port_name)
    \/ \E port_name \in PortNames, args \in Arguments : Invoke(port_name, args)
    \/ \E port_name \in PortNames : IsDisconnectedPort(port_name)

SpecPorts == Init /\ [][NextPorts]_vars

\* ---- a PortArray and its replica

\* The port names and the funcs of the replication scenario.
ReplicaPorts == {"hello", "world"}

ReplicaFuncs == {Value("function", <<>>, "f"), Value("lambda", <<>>, "f")}

NextReplicate ==
    \/ \E port_name \in ReplicaPorts : AddPort(port_name)
    \/ \E port_name \in ReplicaPorts, func \in ReplicaFuncs :
          ConnectPort(port_name, func)
    \/ \E port_name \in ReplicaPorts : DisconnectPort(port_name)
    \/ Replicate
    \/ \E port_name \in ReplicaPorts, func \in ReplicaFuncs :
          ConnectReplica(port_name, func)

SpecReplicate == Init /\ [][NextReplicate]_vars

\* ----------------------------------------------------------------- claims

\* What the entries of a component list declare, read off the components
\* themselves: the names needed, the names provided, the entries that need or
\* provide a name.
ListedNeeds(components) ==
    UNION {world(components[i]).deps :
             i \in {j \in DOMAIN components :
                      world(components[j]).kind \in {"Service", "Domain"}}}

ListedProvides(components) ==
    UNION {DOMAIN world(components[i]).meta : i \in DOMAIN components}

NeedersOf(components, n) ==
    {r \in Range(components) :
        world(r).kind \in {"Service", "Domain"} /\ n \in world(r).deps}

ProvidersOf(components, n) ==
    {q \in Range(components) : n \in DOMAIN world(q).meta}

\* Two entries of the list provide the same port name.
TwoEntriesProvideTheSame(components) ==
    \E i, j \in DOMAIN components :
        /\ i # j
        /\ DOMAIN world(components[i]).meta
              \cap DOMAIN world(components[j]).meta # {}

\* An entry of the list needs a name that it provides itself.
AnEntryNeedsWhatItProvides(components) ==
    \E n \in ListedNeeds(components) :
        NeedersOf(components, n) \cap ProvidersOf(components, n) # {}

Discovering == last.op = "AutoDiscoverConnections"

Defining == last.op = "DomainMetaclass"

\* C1: for every list AutoDiscoverConnections accepts, unsatisfied_needs() is
\* the needed names minus the provided ones, satisfied_needs() the needed
\* names that are provided, the two partition get_needs(), and connections()
\* yields exactly one (n, r, provider of n) for every satisfied name n and
\* every component r that needs n, and nothing else.
C1_OneConnectionPerNeeder ==
    (Discovering /\ last.error = "none") =>
        LET components == last.args.components
            needed     == ListedNeeds(components)
            provided   == ListedProvides(components)
            unmet      == Range(unsatisfied_needs(result))
            met        == Range(satisfied_needs(result))
            expected   ==
                {DiscoveredConnection(n, r, q) :
                    <<n, r, q>> \in
                        {t \in (needed \cap provided) \X Range(components)
                                  \X Range(components) :
                            /\ t[2] \in NeedersOf(components, t[1])
                            /\ t[3] \in ProvidersOf(components, t[1])}}
        IN  /\ unmet = needed \ provided
            /\ met = needed \cap provided
            /\ unmet \cup met = Range(discovered_needs(result))
            /\ unmet \cap met = {}
            /\ \A order \in Orders(DOMAIN result.needs) :
                  LET yielded == connections(result, order)
                  IN  /\ Range(yielded) = expected
                      /\ Len(yielded) = Cardinality(expected)

\* C5: AutoDiscoverConnections, and so auto_wire and a Domain definition,
\* raises DuplicateProviders whenever two entries of the list provide the same
\* port name, in any order, needed or not, and produces no discovery result;
\* a discovery result has at most one provider per name.
C5_DuplicateProvidersRejected ==
    /\ Discovering =>
          LET components == last.args.components
          IN  /\ TwoEntriesProvideTheSame(components) =>
                    /\ last.error = "DuplicateProviders"
                    /\ result = Discovered("DuplicateProviders", EmptyMap, EmptyMap)
                    /\ \A strict \in BOOLEAN :
                          auto_wire(State(slots, providers), components, strict,
                                    <<>>)
                            = Wired("DuplicateProviders", <<>>,
                                    State(slots, providers))
              /\ last.error = "none" =>
                    \A n \in ListedProvides(components) :
                        /\ Cardinality({i \in DOMAIN components :
                                 n \in DOMAIN world(components[i]).meta}) = 1
                        /\ result.provides[n] \in ProvidersOf(components, n)
    /\ Defining =>
          (TwoEntriesProvideTheSame(last.args.services) =>
              last.error = "DuplicateProviders" /\ result = NoClass)

\* Two providers of p that nothing needs are rejected, and so are two listed
\* after a consumer of p.
C5_Witness ==
    /\ Discovering
    /\ last.error = "DuplicateProviders"
    /\ last.args.components \in
          {<<(<<"shape", "-", "p">>), (<<"shape", "-", "pq">>)>>,
           <<(<<"shape", "p", "-">>), (<<"shape", "-", "pq">>),
             (<<"shape", "-", "p">>)>>}

\* C6: AutoDiscoverConnections raises SelfReferencingMadness whenever the
\* component recorded as provider of a needed name is one of the components
\* that need it; no discovery result holds a connection whose consumer is its
\* provider.
C6_SelfReferenceRejected ==
    Discovering =>
        LET components == last.args.components
        IN  /\ (~TwoEntriesProvideTheSame(components)
                  /\ AnEntryNeedsWhatItProvides(components)) =>
                    /\ last.error = "SelfReferencingMadness"
                    /\ result = Discovered("SelfReferencingMadness", EmptyMap,
                                           EmptyMap)
            /\ last.error = "none" =>
                  \A order \in Orders(DOMAIN result.needs) :
                      \A i \in DOMAIN connections(result, order) :
                          connections(result, order)[i].consumer
                            # connections(result, order)[i].provider

\* A component that needs q and provides it, listed after another needer of q.
C6_Witness ==
    /\ Discovering
    /\ last.error = "SelfReferencingMadness"
    /\ last.args.components =
          <<(<<"shape", "q", "-">>), (<<"shape", "pq", "q">>)>>

\* C7: for every component of a list AutoDiscoverConnections accepts, and for
\* every Domain class defined successfully, the names get_needs() returns and
\* the names get_provides() returns are disjoint.
C7_NeedsAndProvidesDisjoint ==
    /\ (Discovering /\ last.error = "none") =>
          \A c \in Range(last.args.components) :
              has_get_needs(c) => get_needs(c) \cap get_provides(c) = {}
    /\ (Defining /\ last.error = "none") =>
          /\ result.kind = "Domain"
          /\ result.deps \cap DOMAIN result.meta = {}
          /\ result.deps = ListedNeeds(last.args.services)
                              \ ListedProvides(last.args.services)
    /\ get_needs(<<"D">>) \cap get_provides(<<"D">>) = {}

\* A Domain whose children need p and q and provide p, exposing p: it needs q
\* and provides p.
C7_Witness ==
    /\ Defining
    /\ last.error = "none"
    /\ last.args.services = <<(<<"shape", "pq", "-">>), (<<"shape", "-", "p">>)>>
    /\ result.deps = {"q"}
    /\ DOMAIN result.meta = {"p"}

\* The operation that provider exposes as port n, read off its metadata: for
\* a Service the method registered for n, bound to it; for a Domain the same
\* of the child that provides n; for an adapter what it wraps.
ExposedAs(provider, n) ==
    CASE world(provider).kind = "Service" ->
            Value("method", provider, world(provider).meta[n])
      [] world(provider).kind = "Domain" ->
            Value("method", world(provider).meta[n],
                  world(world(provider).meta[n]).meta[n])
      [] OTHER -> world(provider).provider

\* The leaf instances whose own PortArray holds need n of consumer: a Service
\* itself, the children of a Domain that need n.
SlotsOf(consumer, n) ==
    IF world(consumer).kind = "Domain"
    THEN {child \in Range(world(consumer).services) :
             world(child).kind = "Service" /\ n \in world(child).deps}
    ELSE {consumer}

\* C2: after auto_wire(components) returns normally, for every discovered
\* connection (n, consumer, provider) the consumer's need slot n is bound to
\* the operation the provider's metadata exposes as n (the renamed method of a
\* Service, the child's method behind a Domain), invoking it runs that
\* operation, and consumer.get_provider(n) is the provider; without strict
\* mode, a need that nothing in the list provides is left as it was.
C2_AutoWireBinds ==
    [][(last'.op = "auto_wire" /\ last'.error = "none") =>
          LET components == last'.args.components
              needed     == ListedNeeds(components)
              provided   == ListedProvides(components)
          IN  /\ \A n \in needed \cap provided :
                   \A r \in NeedersOf(components, n), q \in ProvidersOf(components, n) :
                      /\ get_provider(State(slots', providers'), r, n)
                           = [error |-> "none", provider |-> q]
                      /\ SlotsOf(r, n) # {}
                      /\ \A leaf \in SlotsOf(r, n), args \in Arguments :
                            /\ slots'[leaf].attrs[n] = ExposedAs(q, n)
                            /\ invoke(slots'[leaf], n, args)
                                 = [raised |-> "none", port |-> "none",
                                    returned |-> <<ExposedAs(q, n), args>>]
              /\ ~last'.args.expect_all_ports_connected =>
                   \A n \in needed \ provided :
                      \A r \in NeedersOf(components, n) :
                         /\ (n \in DOMAIN providers'[r]) = (n \in DOMAIN providers[r])
                         /\ \A leaf \in SlotsOf(r, n) :
                               slots'[leaf].attrs[n] = slots[leaf].attrs[n]
      ]_vars

\* a and b wired, then a and d: a's b1 runs b's get_b1, a's x runs the get_x
\* of d's child, and d's own need c1 is still not connected.
C2_Witness ==
    /\ last = Invocation("auto_wire",
                         [components |-> <<(<<"a">>), (<<"d">>)>>,
                          expect_all_ports_connected |-> FALSE], "none")
    /\ slots[<<"a">>].attrs["b1"] = Value("method", <<"b">>, "get_b1")
    /\ slots[<<"a">>].attrs["x"] = Value("method", <<"d", "XS">>, "get_x")
    /\ providers[<<"a">>] = [b1 |-> <<"b">>, x |-> <<"d">>]
    /\ slots[<<"d", "XS">>].attrs["c1"].kind = "placeholder"
    /\ "c1" \notin DOMAIN providers[<<"d">>]

\* What a strict auto_wire that finds unprovided needs does, according to C3.
RaisesDisconnectedPortBeforeBinding(components) ==
    /\ last'.error = "DisconnectedPort"
    /\ Range(result'.names) = ListedNeeds(components) \ ListedProvides(components)
    /\ slots' = slots
    /\ providers' = providers

StrictWithUnprovidedNeeds ==
    /\ last'.op = "auto_wire"
    /\ last'.args.expect_all_ports_connected
    /\ ListedNeeds(last'.args.components)
         \ ListedProvides(last'.args.components) # {}

\* C3 as stated: a strict auto_wire over a list with a needed name that no
\* listed component provides raises DisconnectedPort listing all such names,
\* before any binding.
C3_StrictAlwaysDisconnectedPort ==
    [][StrictWithUnprovidedNeeds =>
          RaisesDisconnectedPortBeforeBinding(last'.args.components)]_vars

\* C3, amended: a strict auto_wire over a list that discovery accepts (no two
\* entries provide the same name, no entry needs what it provides) and that
\* leaves a needed name unprovided raises DisconnectedPort listing all such
\* names, and every slot and every recorded provider is as before the call.
C3_StrictFailsBeforeBinding ==
    [][(/\ StrictWithUnprovidedNeeds
        /\ ~TwoEntriesProvideTheSame(last'.args.components)
        /\ ~AnEntryNeedsWhatItProvides(last'.args.components)) =>
          RaisesDisconnectedPortBeforeBinding(last'.args.components)]_vars

\* A strict auto_wire of a and b, where a's b1 could have been bound, names c1
\* and x and binds nothing.
C3_Witness ==
    /\ last = Invocation("auto_wire",
                         [components |-> <<(<<"a">>), (<<"b">>)>>,
                          expect_all_ports_connected |-> TRUE],
                         "DisconnectedPort")
    /\ result.names = <<"c1", "x">>
    /\ slots[<<"a">>].attrs["b1"].kind = "placeholder"
    /\ providers[<<"a">>] = EmptyMap

\* C4: when a strict auto_wire of fresh components failed for unprovided
\* needs, a strict auto_wire of the same components plus providers of the
\* missing names succeeds, and what it binds is what a single first call with
\* the complete list binds on fresh components.
C4_RetryAsFirstCall ==
    (/\ wired.phase = "retried"
     /\ ListedNeeds(last.args.components) \subseteq ListedProvides(last.args.components)) =>
        LET components == last.args.components
            proper ==
                /\ ~TwoEntriesProvideTheSame(components)
                /\ ~AnEntryNeedsWhatItProvides(components)
                /\ \A n \in ListedNeeds(components) :
                      \A q \in ProvidersOf(components, n) :
                          ExposedAs(q, n).kind \in {"function", "method"}
            first(order) == auto_wire(Fresh, components, TRUE, order)
            now == Wired(last.error, result.names, State(slots, providers))
            orders == Orders(ListedNeeds(components))
        IN  /\ proper => last.error = "none"
            /\ \E order \in orders : first(order) = now
            /\ last.error = "none" => \A order \in orders : first(order) = now

\* a and b failed for c1 and x, then a, b, c and d are wired: every need is
\* bound, a's b1 (which the failed call could have bound) included.
C4_Witness ==
    /\ wired = [phase |-> "retried", prior |-> <<(<<"a">>), (<<"b">>)>>]
    /\ last = Invocation("auto_wire",
                         [components |-> <<(<<"a">>), (<<"b">>), (<<"c">>),
                                           (<<"d">>)>>,
                          expect_all_ports_connected |-> TRUE], "none")
    /\ providers[<<"a">>] = [b1 |-> <<"b">>, x |-> <<"d">>]
    /\ providers[<<"b">>] = [c1 |-> <<"c">>]
    /\ providers[<<"d">>] = [c1 |-> <<"c">>]

\* C8: set_provider(p, q) on a consumer that has a provider recorded for p
\* raises DuplicateProviders and leaves the recorded provider and the slots as
\* they were; so an auto_wire whose list holds a connection for a need that
\* has a provider already fails.
C8_RewiringRejected ==
    [][/\ (/\ last'.op = "set_provider"
           /\ last'.args.port_name \in DOMAIN providers[last'.args.consumer]) =>
              /\ last'.error = "DuplicateProviders"
              /\ slots' = slots
              /\ providers' = providers
       /\ (/\ last'.op = "auto_wire"
           /\ \E n \in ListedProvides(last'.args.components) :
                 \E r \in NeedersOf(last'.args.components, n) :
                     n \in DOMAIN providers[r]) =>
              /\ last'.error # "none"
              /\ \A c \in DOMAIN providers :
                    \A n \in DOMAIN providers[c] :
                        /\ n \in DOMAIN providers'[c]
                        /\ providers'[c][n] = providers[c][n]
      ]_vars

\* a and b, wired before, are handed to auto_wire again.
C8_Witness ==
    /\ last.op = "auto_wire"
    /\ last.args.components = <<(<<"a">>), (<<"b">>)>>
    /\ last.error = "DuplicateProviders"
    /\ providers[<<"a">>] = [b1 |-> <<"b">>]
    /\ slots[<<"a">>].attrs["b1"] = Value("method", <<"b">>, "get_b1")

\* C9: once a valid, non-reserved name n is added and connect_port(n, f) is
\* called with a callable f of any kind, invoking n with any arguments returns
\* f applied to them, until the next connect_port or disconnect_port on n.
C9_InvokeCallsWhatWasConnected ==
    /\ \A n \in get_ports(port_array) :
          since[n].func # <<>> =>
              \A args \in Arguments :
                  invoke(port_array, n, args)
                    = [raised |-> "none", port |-> "none",
                       returned |-> <<since[n].func[1], args>>]
    /\ (last.op = "invoke" /\ since[last.args.port_name].func # <<>>) =>
          result = [raised |-> "none", port |-> "none",
                    returned |-> <<since[last.args.port_name].func[1],
                                   last.args.args>>]
    /\ (/\ last.op = "connect_port"
        /\ last.args.port_name \in get_ports(port_array)
        /\ last.args.func \in Callables) =>
          /\ last.error = "none"
          /\ since[last.args.port_name].func = <<last.args.func>>
    /\ (last.op = "add_port" /\ last.args.port_name \in {"hello", "world"}) =>
          /\ last.error \in {"none", "DuplicatePortDefinition"}
          /\ last.args.port_name \in get_ports(port_array)

\* world, connected to a class method, is invoked with two arguments.
C9_Witness ==
    /\ last = Invocation("invoke",
                         [port_name |-> "world", args |-> <<"1", "2">>], "none")
    /\ result.returned = <<Value("classmethod", <<>>, "f"), <<"1", "2">>>>

\* C10: a declared port is unbound exactly when no connect_port on it happened
\* since it was added or last disconnected; invoking an unbound port raises
\* DisconnectedPort naming it, is_disconnected_port is true of it, and
\* disconnect_port on it succeeds and leaves it unbound.
C10_UnboundUntilConnected ==
    /\ \A n \in get_ports(port_array) :
          /\ n \in DOMAIN since
          /\ (since[n].func = <<>>)
               = is_disconnected_port(port_array, n).value
          /\ is_disconnected_port(port_array, n).error = "none"
          /\ since[n].func = <<>> =>
                /\ \A args \in Arguments :
                      invoke(port_array, n, args)
                        = [raised |-> "DisconnectedPort", port |-> n,
                           returned |-> <<>>]
                /\ disconnect_port(port_array, n) = Outcome("none", port_array)
    /\ (last.op = "invoke" /\ since[last.args.port_name].func = <<>>) =>
          /\ last.error = "DisconnectedPort"
          /\ result.port = last.args.port_name
    /\ (last.op = "is_disconnected_port" /\ last.error = "none") =>
          result.value = (since[last.args.port_name].func = <<>>)
    /\ (last.op = "disconnect_port"
        /\ last.args.port_name \in get_ports(port_array)) =>
          /\ last.error = "none"
          /\ since[last.args.port_name].func = <<>>

\* hello was disconnected when nothing was connected to it.
C10_Witness ==
    /\ last = Invocation("disconnect_port", [port_name |-> "hello"], "none")
    /\ since["hello"] = Since(<<>>, TRUE)
    /\ port_array.attrs["hello"]
         = _get_placeholder_func_for_disconnected_port("hello")


\* ---- C11, C12: what a PortArray accepts

\* chars, as a whole string, is a lowercase letter followed by letters,
\* digits and underscores only.
WholeNameMatches(chars) ==
    /\ Len(chars) >= 1
    /\ chars[1] \in Lower
    /\ \A i \in 2..Len(chars) : chars[i] \in Lower \cup Upper \cup Digit \cup {"_"}

\* C11: add_port(n) succeeds iff n as a whole string matches
\* ^[a-z][A-Za-z0-9_]*$, n is not reserved and n is not declared yet;
\* otherwise it raises InvalidPortName (format, reserved) or
\* DuplicatePortDefinition (declared) and the array is unchanged; no declared
\* port has the name of an operation of the array.
C11_AddPortIffValid ==
    [][last'.op = "add_port" =>
         LET n     == last'.args.port_name
             valid == WholeNameMatches(Spelling[n]) /\ n \notin RESERVED_PORT_NAMES
         IN  /\ (last'.error = "none") = (valid /\ n \notin get_ports(port_array))
             /\ last'.error = "none" =>
                   get_ports(port_array') = get_ports(port_array) \cup {n}
             /\ ~valid => last'.error = "InvalidPortName"
             /\ (valid /\ n \in get_ports(port_array)) =>
                   last'.error = "DuplicatePortDefinition"
             /\ last'.error # "none" => port_array' = port_array
             /\ get_ports(port_array') \cap RESERVED_PORT_NAMES = {}
      ]_vars

\* C12 as stated: connect_port(n, f) raises UnknownPort whenever n is not
\* declared and WiringError whenever f is not callable; disconnect_port(n)
\* raises UnknownPort when n is not declared; a failure changes nothing and
\* neither operation changes the declared names.
C12_UndeclaredAlwaysUnknownPort ==
    [][/\ last'.op = "connect_port" =>
             /\ last'.args.port_name \notin get_ports(port_array) =>
                   last'.error = "UnknownPort"
             /\ ~callable(last'.args.func) => last'.error = "WiringError"
       /\ (/\ last'.op = "disconnect_port"
           /\ last'.args.port_name \notin get_ports(port_array)) =>
             last'.error = "UnknownPort"
       /\ last'.op \in {"connect_port", "disconnect_port"} =>
             /\ get_ports(port_array') = get_ports(port_array)
             /\ last'.error # "none" => port_array' = port_array
      ]_vars

\* C12, amended: connect_port(n, f) raises WiringError when f is not
\* callable, and otherwise UnknownPort when n is not declared;
\* disconnect_port(n) raises UnknownPort when n is not declared; a failure
\* changes neither the declared names nor any binding, a success changes the
\* binding of n only, and neither operation changes the declared names.
C12_OnlyDeclaredConnected ==
    [][/\ last'.op = "connect_port" =>
             last'.error =
                IF ~callable(last'.args.func) THEN "WiringError"
                ELSE IF last'.args.port_name \notin get_ports(port_array)
                THEN "UnknownPort"
                ELSE "none"
       /\ last'.op = "disconnect_port" =>
             last'.error =
                IF last'.args.port_name \notin get_ports(port_array)
                THEN "UnknownPort" ELSE "none"
       /\ last'.op \in {"connect_port", "disconnect_port"} =>
             /\ get_ports(port_array') = get_ports(port_array)
             /\ last'.error # "none" => port_array' = port_array
             /\ \A n \in get_ports(port_array) \ {last'.args.port_name} :
                   port_array'.attrs[n] = port_array.attrs[n]
      ]_vars

\* With hello declared and bound, an object that is not callable was handed
\* to connect_port for world, which is not declared.
C12_Witness ==
    /\ last = Invocation("connect_port",
                         [port_name |-> "world", func |-> Value("object", <<>>, "o")],
                         "WiringError")
    /\ get_ports(port_array) = {"hello"}
    /\ port_array.attrs["hello"] = Value("lambda", <<>>, "f")


\* ---- C13: replicate

\* Every declared port of array is unbound.
AllUnbound(array) ==
    /\ DOMAIN array.attrs = get_ports(array)
    /\ \A n \in get_ports(array) :
          /\ array.attrs[n] = _get_placeholder_func_for_disconnected_port(n)
          /\ is_disconnected_port(array, n) = [error |-> "none", value |-> TRUE]

\* C13: whatever is bound in r, replicate(r) is a new array that declares the
\* names r declares with every port unbound, and r is as it was; afterwards
\* a call on r leaves the replica as it is and a connect_port on the replica
\* leaves r as it is.
C13_ReplicaUnboundAndApart ==
    [][/\ last'.op = "replicate" =>
             /\ replica' # <<>>
             /\ get_ports(replica'[1]) = get_ports(port_array)
             /\ AllUnbound(replica'[1])
             /\ port_array' = port_array
       /\ last'.op = "replica.connect_port" =>
             /\ port_array' = port_array
             /\ since' = since
             /\ get_ports(replica'[1]) = get_ports(replica[1])
             /\ last'.error = "none" =>
                   replica'[1].attrs[last'.args.port_name] = last'.args.func
       /\ last'.op \in {"add_port", "connect_port", "disconnect_port"} =>
             replica' = replica
      ]_vars

\* hello and world were declared and both bound when the array was
\* replicated; then hello of the replica was connected to another func.
C13_Witness ==
    /\ last = Invocation("replica.connect_port",
                         [port_name |-> "hello",
                          func |-> Value("lambda", <<>>, "f")], "none")
    /\ port_array.attrs = [hello |-> Value("function", <<>>, "f"),
                           world |-> Value("function", <<>>, "f")]
    /\ replica[1].attrs = [hello |-> Value("lambda", <<>>, "f"),
                           world |-> _get_placeholder_func_for_disconnected_port("world")]


\* ---- C14: connection state is per instance

\* The keys of slots that hold the arrays behind the deps of instance c: its
\* own array for a Service, those of its children for a Domain.
RECURSIVE ArraysBehind(_)
ArraysBehind(c) ==
    IF world(c).kind = "Domain"
    THEN UNION {ArraysBehind(world(c).services[i]) : i \in DOMAIN world(c).services}
    ELSE IF world(c).kind = "Service" THEN {c} ELSE {}

\* The instances a call binds needs of: the consumer of a set_provider, the
\* listed components of an auto_wire.
BoundBy(call) ==
    IF call.op = "set_provider" THEN {call.args.consumer}
    ELSE IF call.op = "auto_wire" THEN Range(call.args.components)
    ELSE {}

\* C14: set_provider and auto_wire change no array other than those behind
\* the instances they bind needs of, and no recorded provider of another
\* instance: the arrays of another instance of the same Service or Domain
\* class (and of its children) and the class-level deps stay as they were, so
\* after wiring one of two fresh instances the other is still unbound.
C14_InstancesApart ==
    [][/\ \A k \in DOMAIN slots :
             k \notin UNION {ArraysBehind(c) : c \in BoundBy(last')} =>
                 slots'[k] = slots[k]
       /\ DOMAIN slots' = DOMAIN slots
       /\ \A k \in DOMAIN providers :
             k \notin BoundBy(last') => providers'[k] = providers[k]
       /\ \A cls \in TwoOfEachClasses :
             /\ slots'[cls] = slots[cls]
             /\ AllUnbound(slots'[cls])
      ]_vars

\* a and d were wired (a to d, the child of d to c); a2, d2 and the children
\* of d2 are as the constructors left them.
C14_Witness ==
    /\ slots[<<"a">>].attrs["x"] = Value("method", <<"d", "XS">>, "get_x")
    /\ slots[<<"d", "XS">>].attrs["c1"] = Value("method", <<"c">>, "c1")
    /\ AllUnbound(slots[<<"a2">>])
    /\ slots[<<"d2", "XS">>].attrs["c1"]
         = _get_placeholder_func_for_disconnected_port("c1")
    /\ providers[<<"a2">>] = EmptyMap
    /\ providers[<<"d2">>] = EmptyMap
    /\ providers[<<"a">>] = [x |-> <<"d">>]
    /\ providers[<<"d">>] = [c1 |-> <<"c">>]


\* ---- C15 to C19: a Domain class and its instance

\* The union of the needs, and of the provides, of the classes of a list.
ChildrenNeeds(services) ==
    UNION {get_needs(services[i]) : i \in DOMAIN services}

ChildrenProvides(services) ==
    UNION {get_provides(services[i]) : i \in DOMAIN services}

XDefined == <<"X">> \in DOMAIN classes

XInstantiated == <<"x">> \in DOMAIN providers

\* C15: the needs of a Domain class that was defined are the names its
\* children need and none of them provides, each once however many children
\* need it, and the deps of an instance of the class expose the same names.
C15_DomainNeedsAreUnresolved ==
    /\ (last.op = "DomainMetaclass" /\ last.error = "none") =>
          /\ XDefined
          /\ classes[<<"X">>] = result
          /\ get_needs(<<"X">>)
               = ChildrenNeeds(last.args.services) \ ChildrenProvides(last.args.services)
          /\ get_ports(Needs(get_needs(<<"X">>))) = get_needs(<<"X">>)
    /\ XInstantiated =>
          /\ deps_get_ports(State(slots, providers), <<"x">>) = get_needs(<<"X">>)
          /\ get_needs(<<"X">>)
               = ChildrenNeeds(classes[<<"X">>].services)
                   \ ChildrenProvides(classes[<<"X">>].services)

\* Two Services need p and one of them also q, which the other provides: the
\* Domain and its instance need p alone.
C15_Witness ==
    /\ XInstantiated
    /\ classes[<<"X">>].services = <<(<<"shape", "p", "q">>), (<<"shape", "pq", "-">>)>>
    /\ deps_get_ports(State(slots, providers), <<"x">>) = {"p"}


\* The names a __provides__ asks for: the list, or what AutoProvide.filter
\* keeps of the names the children provide.
AskedFor(provides, services) ==
    IF provides.auto THEN ChildrenProvides(services) \cap provides.accepts
    ELSE Range(provides.names)

\* A definition was tried, and what its provides are if it succeeded.
ProvidesAsDeclared ==
    (last.op = "DomainMetaclass" /\ last.error = "none") =>
        /\ XDefined
        /\ get_provides(<<"X">>) = AskedFor(last.args.provides, last.args.services)
        /\ get_provides(<<"X">>) \subseteq ChildrenProvides(last.args.services)

\* C16 as stated: the provides of a Domain class that was defined are the
\* names of its __provides__ list (with AutoProvide: the children's provided
\* names that the predicate accepts), all provided by children; any
\* definition whose __provides__ lists a name that no child provides raises
\* DomainDefinitionError and produces no class.
C16_UnprovidedAlwaysDefinitionError ==
    /\ ProvidesAsDeclared
    /\ (/\ last.op = "DomainMetaclass"
        /\ ~last.args.provides.auto
        /\ ~(Range(last.args.provides.names)
               \subseteq ChildrenProvides(last.args.services))) =>
          /\ last.error = "DomainDefinitionError"
          /\ ~XDefined

\* C16, amended: as above, for a definition whose __services__ discovery
\* accepts; when discovery rejects the children, its error is raised
\* instead; whatever is raised, no class is produced.
C16_ProvidesAreDeclared ==
    /\ ProvidesAsDeclared
    /\ last.op = "DomainMetaclass" =>
          LET children == AutoDiscoverConnections(last.args.services)
          IN  /\ children.error # "none" =>
                    /\ last.error = children.error
                    /\ last.error \in {"DuplicateProviders", "SelfReferencingMadness"}
              /\ (/\ children.error = "none"
                  /\ ~last.args.provides.auto
                  /\ ~(Range(last.args.provides.names)
                         \subseteq ChildrenProvides(last.args.services))) =>
                    last.error = "DomainDefinitionError"
              /\ last.error # "none" => (~XDefined /\ result = NoClass)

\* A Service that provides p and q and the Domain D, which provides x, are
\* the children; __provides__ lists x and p.
C16_Witness ==
    /\ last = Invocation("DomainMetaclass",
                         [services |-> <<(<<"shape", "-", "pq">>), (<<"D">>)>>,
                          provides |-> ProvidesList(<<"x", "p">>)], "none")
    /\ get_provides(<<"X">>) = {"p", "x"}


\* The sibling of child in Domain instance d that provides n, as a set.
SiblingsProviding(d, child, n) ==
    {s \in Range(world(d).services) : s # child /\ n \in get_provides(s)}

DomainsOfX ==
    {d \in {<<"x">>} \cup Range(world(<<"x">>).services) : world(d).kind = "Domain"}

\* What a Domain is to report for a port: the providing child's flags
\* without 'with_name'.
InheritedFlags(d, n) ==
    ProviderFlags("none", pop(get_provider_flags(world(d).meta[n], n).flags, "with_name"))

\* The flags of every exposed port, by the class-level accessors.
C18_ClassLevelFlags ==
    XInstantiated =>
        \A d \in DomainsOfX : \A n \in get_provides(d) :
            /\ get_provider_flags(type(d), n) = InheritedFlags(d, n)
            /\ get_provider_flags(d, n) = InheritedFlags(d, n)
            /\ \A flag \in {"volume", "with_name"} :
                  get_provider_flag(d, n, flag).value
                   = IF flag \in DOMAIN InheritedFlags(d, n).flags
                     THEN InheritedFlags(d, n).flags[flag] ELSE "None"

\* C18: for every port a Domain exposes, the flags it reports, by the
\* class-level accessors and by the instance metadata, are the providing
\* child's flags without 'with_name', every other flag unchanged.
C18_FlagsInheritedWithoutRename ==
    /\ C18_ClassLevelFlags
    /\ XInstantiated =>
          \A d \in DomainsOfX : \A n \in get_provides(d) :
              get_instance_metadata_flags(d, n) = InheritedFlags(d, n)


\* A class is listed more than once.
ListedTwice(services) ==
    \E i, j \in DOMAIN services : i # j /\ services[i] = services[j]

\* The list without the later occurrences of a class.
RECURSIVE Distinct(_)
Distinct(services) ==
    IF services = <<>> THEN <<>>
    ELSE LET front == Distinct(SubSeq(services, 1, Len(services) - 1))
             c     == services[Len(services)]
         IN  IF c \in Range(front) THEN front ELSE Append(front, c)

\* The children of the instance x are one instance of every class that
\* __services__ of X lists, and no more.
OneInstancePerClass ==
    LET children == world(<<"x">>).services
    IN  /\ {class_of(children[i]) : i \in DOMAIN children} = Range(classes[<<"X">>].services)
        /\ Len(children) = Cardinality(Range(classes[<<"X">>].services))
        /\ \A i, j \in DOMAIN children : children[i] = children[j] => i = j
        /\ \A i \in DOMAIN children : children[i] \in DOMAIN slots \cup DOMAIN providers

\* C19 as stated: instantiating a Domain creates exactly one instance of every
\* distinct class of __services__, and a definition that lists a class twice
\* is accepted whenever the same definition listing it once is.
C19_ListedTwiceAccepted ==
    [][/\ last'.op = "Domain.__init__" => OneInstancePerClass'
       /\ (/\ last'.op = "DomainMetaclass"
           /\ ListedTwice(last'.args.services)
           /\ DomainMetaclass(Distinct(last'.args.services),
                              last'.args.provides).error = "none")
          => last'.error = "none"]_vars

\* C19 amended: instantiating a Domain creates exactly one instance of every
\* distinct class of __services__; a definition that lists twice a class
\* providing a port raises DuplicateProviders, and one that lists twice only
\* classes providing nothing ends as the definition listing them once does.
C19_OneInstancePerClass ==
    [][/\ last'.op = "Domain.__init__" => OneInstancePerClass'
       /\ (last'.op = "DomainMetaclass" /\ ListedTwice(last'.args.services))
          => LET services == last'.args.services
                 twice == {services[i] : i \in {i \in DOMAIN services :
                              \E j \in DOMAIN services : j # i /\ services[j] = services[i]}}
             IN  IF \E c \in twice : get_provides(c) # {}
                 THEN last'.error = "DuplicateProviders" /\ classes' = classes
                 ELSE last'.error
                       = DomainMetaclass(Distinct(services), last'.args.provides).error]_vars

\* X lists twice a Service that needs p and provides nothing; its instance
\* holds one child.
C19_Witness ==
    /\ XInstantiated
    /\ classes[<<"X">>].services = <<(<<"shape", "p", "-">>), (<<"shape", "p", "-">>)>>
    /\ world(<<"x">>).services = <<(<<"x", "shape", "p", "-">>)>>
    /\ <<"x", "shape", "p", "-">> \in DOMAIN slots


\* ---- C20: the deps of a Domain instance

\* Some array under the deps of Domain instance d declares n, and n is not
\* among the ports the deps ignore (the needs a sibling satisfies).
DeclaredUnder(d, n) ==
    /\ n \in ChildrenNeeds(world(d).services)
    /\ n \notin ChildrenNeeds(world(d).services) \cap ChildrenProvides(world(d).services)

\* The Service instances whose own PortArray a call for n on the deps of c
\* is to reach: through every child array that declares n, nested Domains
\* included.
RECURSIVE Underlying(_, _)
Underlying(c, n) ==
    IF world(c).kind = "Service" THEN {leaf \in {c} : n \in slots[c].ports}
    ELSE IF world(c).kind = "Domain" /\ DeclaredUnder(c, n)
    THEN UNION {Underlying(world(c).services[i], n) : i \in DOMAIN world(c).services}
    ELSE {}

\* The step left every array and every recorded provider as it was.
NothingChanged == slots' = slots /\ providers' = providers

\* The step set port n to value in every array under the deps of x that
\* declares n, and changed no other port and no other array.
SetInEvery(n, value) ==
    /\ Underlying(<<"x">>, n) # {}
    /\ DOMAIN slots' = DOMAIN slots
    /\ \A leaf \in DOMAIN slots :
          slots'[leaf] = IF leaf \in Underlying(<<"x">>, n)
                         THEN [slots[leaf] EXCEPT !.attrs[n] = value]
                         ELSE slots[leaf]

\* disconnect_port on the deps of x, and set_provider of x, as C20 states them.
C20_DisconnectAndSetProvider ==
    /\ last'.op = "deps.disconnect_port" =>
          IF DeclaredUnder(<<"x">>, last'.args.port_name)
          THEN /\ last'.error = "none"
               /\ SetInEvery(last'.args.port_name,
                             _get_placeholder_func_for_disconnected_port(last'.args.port_name))
               /\ providers' = providers
          ELSE last'.error = "UnknownPort" /\ NothingChanged
    /\ (/\ last'.op = "set_provider"
        /\ last'.args.consumer = <<"x">>
        /\ last'.error = "none") =>
          /\ SetInEvery(last'.args.port_name,
                        ExposedAs(last'.args.provider, last'.args.port_name))
          /\ providers' = [providers EXCEPT ![<<"x">>] =
                             [n \in {last'.args.port_name} |-> last'.args.provider] @@ @]

\* C20 as stated: connect_port on the deps of a Domain instance binds the
\* port in every underlying array that declares it, nested Domains included,
\* and disconnect_port unbinds it in all of them; both change nothing else;
\* both raise UnknownPort, changing nothing, for a name no underlying array
\* declares or that is ignored; connect_port with a non-callable raises
\* WiringError, changing nothing; one set_provider on the Domain binds the
\* need of every child.
C20_UndeclaredAlwaysUnknownPort ==
    [][/\ C20_DisconnectAndSetProvider
       /\ last'.op = "deps.connect_port" =>
             /\ ~DeclaredUnder(<<"x">>, last'.args.port_name) =>
                   last'.error = "UnknownPort" /\ NothingChanged
             /\ ~callable(last'.args.func) =>
                   last'.error = "WiringError" /\ NothingChanged
             /\ (DeclaredUnder(<<"x">>, last'.args.port_name) /\ callable(last'.args.func)) =>
                   /\ last'.error = "none"
                   /\ SetInEvery(last'.args.port_name, last'.args.func)
                   /\ providers' = providers]_vars

\* C20 amended: as stated, but connect_port looks at func first: with a
\* non-callable it raises WiringError whatever the name, and it raises
\* UnknownPort for a callable and a name that is not declared or is ignored.
C20_ShadowPropagates ==
    [][/\ C20_DisconnectAndSetProvider
       /\ last'.op = "deps.connect_port" =>
             IF ~callable(last'.args.func)
             THEN last'.error = "WiringError" /\ NothingChanged
             ELSE IF ~DeclaredUnder(<<"x">>, last'.args.port_name)
             THEN last'.error = "UnknownPort" /\ NothingChanged
             ELSE /\ last'.error = "none"
                  /\ SetInEvery(last'.args.port_name, last'.args.func)
                  /\ providers' = providers]_vars

\* x holds the Domain D beside A and B; one connect_port of c1 on its deps
\* bound c1 in B and, through the deps of D, in XS, and left the hidden of XS
\* bound to its sibling.
C20_Witness ==
    /\ XInstantiated
    /\ classes[<<"X">>].services = <<(<<"D">>), (<<"A">>), (<<"B">>)>>
    /\ last.op = "deps.connect_port" /\ last.error = "none"
    /\ slots[<<"x", "B">>].attrs["c1"] = Value("function", <<>>, "f")
    /\ slots[<<"x", "D", "XS">>].attrs["c1"] = Value("function", <<>>, "f")
    /\ slots[<<"x", "D", "XS">>].attrs["hidden"] = Value("method", <<"x", "D", "HS">>, "hidden")
    /\ slots[<<"x", "A">>].attrs["x"] = Value("method", <<"x", "D", "XS">>, "get_x")


\* ---- C21: what a Service class may use of its deps

\* names lists the set S, each name once, in ascending order.
IsSortedListOf(names, S) ==
    /\ Range(names) = S
    /\ Len(names) = Cardinality(S)
    /\ \A i, j \in DOMAIN names :
          i < j => \E a, b \in DOMAIN NameOrder :
                      a < b /\ NameOrder[a] = names[i] /\ NameOrder[b] = names[j]

\* The class statement passes what ServiceMetaclass checks before the deps.
PassesEarlierChecks(state) ==
    /\ state.attrs = {}
    /\ state.deps.kind # "object"
    /\ \A i, j \in DOMAIN state.members :
          (i # j /\ state.members[i].port # Untagged)
             => state.members[i].port # state.members[j].port

DeclaredNeeds(state) == state.deps.ports

UsedByAny(state) ==
    UNION {state.members[i].deps_used : i \in DOMAIN state.members}

Undeclared(state, i) ==
    (state.members[i].deps_used \ DeclaredNeeds(state)) \ RESERVED_PORT_NAMES

IsDepsCall(node, n) ==
    /\ node.type = "Call"
    /\ node.children[1] = ast_Attribute(SelfDeps, n)

\* The names n for which a call expression self.deps.n(...) occurs anywhere
\* in the tree.
RECURSIVE DepsCalledIn(_)
DepsCalledIn(node) ==
    {n \in {"a", "b", "c"} : IsDepsCall(node, n)}
    \cup UNION {DepsCalledIn(node.children[i]) : i \in DOMAIN node.children}
    \cup UNION {DepsCalledIn(node.keywords[i]) : i \in DOMAIN node.keywords}

\* C22: parse_deps_used returns exactly the names n for which a call
\* expression self.deps.n(...) occurs anywhere in the syntax tree, and none
\* that occurs only in a string literal, as an attribute read that is not
\* called, or under another access path.
C22_ParseFindsEveryDepsCall ==
    [][last'.op = "parse_deps_used" =>
          result'.names = DepsCalledIn(last'.args)]_vars

\* A call whose func is no attribute chain: a call of what a call returned,
\* or of a subscript.
RECURSIVE CallsWhatIsNoAttribute(_)
CallsWhatIsNoAttribute(node) ==
    \/ node.type = "Call" /\ node.children[1].type \notin {"Attribute", "Name"}
    \/ \E i \in DOMAIN node.children : CallsWhatIsNoAttribute(node.children[i])
    \/ \E i \in DOMAIN node.keywords : CallsWhatIsNoAttribute(node.keywords[i])

\* What parse_deps_used does find: every call of a port in a tree in which
\* every call is a call of a name or of an attribute.
C22_FindsUnlessFuncIsNoAttribute ==
    [][(last'.op = "parse_deps_used" /\ ~CallsWhatIsNoAttribute(last'.args)) =>
          result'.names = DepsCalledIn(last'.args)]_vars


\* ---- C23: the order of the component list

\* The lists that hold the entries of components in another order.
Permuted(components) ==
    {[i \in DOMAIN components |-> components[p[i]]] : p \in Orders(DOMAIN components)}

\* The connections of a discovery, as a set.
ConnectionsOf(discovered) ==
    Range(connections(discovered, discovered_needs(discovered)))

\* Two discoveries agree: both fail with the same error, or both give the
\* same needs, provides, unsatisfied and satisfied needs, provider of each
\* name and set of connections.
SameDiscovery(d1, d2) ==
    /\ d1.error = d2.error
    /\ d1.error = "none" =>
          /\ discovered_needs(d1) = discovered_needs(d2)
          /\ discovered_provides(d1) = discovered_provides(d2)
          /\ unsatisfied_needs(d1) = unsatisfied_needs(d2)
          /\ satisfied_needs(d1) = satisfied_needs(d2)
          /\ d1.provides = d2.provides
          /\ ConnectionsOf(d1) = ConnectionsOf(d2)

\* What auto_wire may make of the list, in the state before the step: one
\* outcome for each order in which the needs of the discovery are iterated.
OutcomesOf(components, strict) ==
    LET discovered == AutoDiscoverConnections(components)
    IN  {auto_wire(State(slots, providers), components, strict, order) :
            order \in Orders(DOMAIN discovered.needs \cap DOMAIN discovered.provides)}

\* Discovery does not depend on the order of the list.
C23_DiscoveryWhateverTheOrder ==
    [][/\ last'.op = "AutoDiscoverConnections" =>
             \A other \in Permuted(last'.args.components) :
                 SameDiscovery(AutoDiscoverConnections(other), result')
       /\ last'.op = "auto_wire" =>
             \A other \in Permuted(last'.args.components) :
                 SameDiscovery(AutoDiscoverConnections(other),
                               AutoDiscoverConnections(last'.args.components))]_vars

\* An auto_wire that returned normally, or was rejected before it bound
\* anything, ends the same for the list in any order.
C23_WiringWhateverTheOrderUnlessBindingFails ==
    [][last'.op = "auto_wire" =>
          \A other \in Permuted(last'.args.components) :
              \A outcome \in OutcomesOf(other, last'.args.expect_all_ports_connected) :
                  IF \/ last'.error = "none"
                     \/ AutoDiscoverConnections(last'.args.components).error # "none"
                     \/ /\ last'.args.expect_all_ports_connected
                        /\ unsatisfied_needs(AutoDiscoverConnections(last'.args.components)) # <<>>
                  THEN /\ outcome.error = last'.error
                       /\ outcome.st = State(slots', providers')
                  ELSE outcome.error # "none"]_vars

\* C23: discovery does not depend on the order of the component list - for
\* every permutation it fails with the same kind of error or yields the same
\* needs, provides, unsatisfied and satisfied needs, providers and set of
\* connections - and auto_wire produces the same final bindings.
C23_OrderOfTheListIrrelevant ==
    [][/\ last'.op = "AutoDiscoverConnections" =>
             \A other \in Permuted(last'.args.components) :
                 SameDiscovery(AutoDiscoverConnections(other), result')
       /\ last'.op = "auto_wire" =>
             \A other \in Permuted(last'.args.components) :
                 \A outcome \in OutcomesOf(other, last'.args.expect_all_ports_connected) :
                     outcome.st = State(slots', providers')]_vars


\* ---- C25: a rejected auto_wire and what it leaves bound

\* C25: every auto_wire call that raises, whatever it raises, leaves every
\* need slot and every recorded provider as it was before the call.
C25_RejectedAutoWireIsAtomic ==
    [][(last'.op = "auto_wire" /\ last'.error # "none") =>
          (slots' = slots /\ providers' = providers)]_vars

\* An auto_wire rejected by discovery or by the strict check, which both come
\* before wire_up_discovered_connections, leaves every slot and every
\* recorded provider as it was.
C25_RejectedBeforeBindingIsAtomic ==
    [][(/\ last'.op = "auto_wire"
        /\ \/ AutoDiscoverConnections(last'.args.components).error # "none"
           \/ /\ last'.args.expect_all_ports_connected
              /\ unsatisfied_needs(
                     AutoDiscoverConnections(last'.args.components)) # <<>>) =>
          (last'.error # "none" /\ slots' = slots /\ providers' = providers)]_vars


\* ---- C26: a strict auto_wire that returns leaves no need unbound

\* The Service instances behind component c: c itself, or the Services held
\* by Domain c and by the Domains it holds.
RECURSIVE ServicesWithin(_)
ServicesWithin(c) ==
    IF world(c).kind = "Service" THEN {c}
    ELSE IF world(c).kind = "Domain"
    THEN UNION {ServicesWithin(world(c).services[i]) : i \in DOMAIN world(c).services}
    ELSE {}

\* Some port of Service instance s is disconnected.
HasUnbound(s) ==
    \E port \in get_ports(slots[s]) : is_disconnected_port(slots[s], port).value

\* A strict auto_wire of components as their constructors left them returned
\* normally.
StrictReturned ==
    /\ last.op = "auto_wire"
    /\ last.args.expect_all_ports_connected
    /\ last.error = "none"

\* C26: after a strict auto_wire of freshly instantiated components returns
\* normally, no need slot of a listed Service, nor of a Service held at any
\* depth by a listed Domain, is unbound.
C26_StrictLeavesNothingUnbound ==
    StrictReturned =>
        \A c \in Range(last.args.components) :
            \A s \in ServicesWithin(c) : ~HasUnbound(s)

\* A strict auto_wire returned for a list with x, whose Domain D holds XS:
\* the c1 of XS, two Domains down, is bound to what the list provided.
C26_Witness ==
    /\ StrictReturned
    /\ <<"x">> \in Range(last.args.components)
    /\ <<"x", "D", "XS">> \in ServicesWithin(<<"x">>)
    /\ "c1" \in get_needs(<<"x">>)
    /\ ~HasUnbound(<<"x", "D", "XS">>)


\* ---- C27: what a ShadowPortArray reports as its ports

\* The names the arrays under the shadow declare now.
DeclaredNow == UNION {get_ports(slots[a]) : a \in Range(shadow[1]._children)}

\* C27: at any time, the ports of a ShadowPortArray are the names that its
\* underlying arrays declare at that time, less the ignored ones.
C27_ShadowKeepsNoState ==
    shadow # <<>> =>
        shadow_get_ports(shadow[1]) = DeclaredNow \ shadow[1].ignored_ports

\* The ports of a ShadowPortArray are the names its arrays declared when it
\* was built, less the ignored ones, whatever has been declared, connected
\* or disconnected since; when no array has been given a port since, these
\* are the names declared now.
C27_ShadowPortsAreAsBuilt ==
    [][/\ last'.op = "ShadowPortArray" =>
             shadow_get_ports(shadow'[1])
                 = DeclaredNow' \ last'.args.ignore_ports
       /\ shadow # <<>> => shadow' = shadow]_vars


\* ---- C28: a set_provider that raises

\* Every port for which a consumer has a provider recorded is a need the
\* consumer declares.
RecordedAreNeeds ==
    \A c \in DOMAIN providers : DOMAIN providers[c] \subseteq get_needs(c)

\* C28: a set_provider that raises, whatever it raises, leaves every recorded
\* provider and every port of every array as before the call, those of a
\* Domain's children included; and at all times a port with a recorded
\* provider is a declared need of the consumer.
C28_FailedSetProviderChangesNothing ==
    /\ []RecordedAreNeeds
    /\ [][(last'.op = "set_provider" /\ last'.error # "none") =>
             (slots' = slots /\ providers' = providers)]_vars

\* Domain d, its c1 bound to c, was then offered g's object, which is not
\* callable, for b1: WiringError, and c1 is all that d has recorded.
C28_Witness ==
    /\ last = Invocation("set_provider",
                         [consumer |-> <<"d">>, port_name |-> "b1",
                          provider |-> <<"g">>], "WiringError")
    /\ providers[<<"d">>] = [n \in {"c1"} |-> <<"c">>]
    /\ slots[<<"d", "XS">>].attrs["c1"] = BoundMethod(<<"c">>, "c1")


\* ---- C29: children that need one name with different interfaces

\* The children among services that need port, when no child provides it.
NeedersOfUnresolved(services, port) ==
    IF port \in ChildrenProvides(services) THEN {}
    ELSE {c \in Range(services) : port \in get_needs(c)}

\* Child class c declares its needs by a NeedsInterface, with a signature for
\* each.
DeclaresSignatures(c) == c[4] # "Needs"

\* Two children that need the unresolved port give it signatures that differ,
\* both signatures being taken from the set considered.
TwoDiffer(services, port, considered) ==
    \E c1, c2 \in {c \in NeedersOfUnresolved(services, port) : DeclaresSignatures(c)} :
        /\ InterfaceMethod(c1, port).argspec \in considered
        /\ InterfaceMethod(c2, port).argspec \in considered
        /\ InterfaceMethod(c1, port).argspec # InterfaceMethod(c2, port).argspec

\* The signatures of the methods of the interfaces of the model.
Signatures ==
    {InterfaceMethod(<<"shape", "p", "-", i>>, "p").argspec : i \in {"*", "a", "ab"}}

\* A class statement over children that discovery accepts.
DefinedOverAccepted ==
    /\ last.op = "DomainMetaclass"
    /\ AutoDiscoverConnections(last.args.services).error = "none"

\* The definition fails with InconsistentInterface exactly when two children
\* differ within `considered` on some unresolved need; when it succeeds, the
\* template of a port has a signature that a child declared within
\* `considered` if there is one, and the generic signature if there is none.
InterfacesCompared(considered) ==
    LET services == last.args.services
        ports    == ChildrenNeeds(services) \ ChildrenProvides(services)
    IN  /\ last.error = "InconsistentInterface"
              <=> \E port \in ports : TwoDiffer(services, port, considered)
        /\ last.error = "none" =>
              \A port \in ports :
                LET declared ==
                        {InterfaceMethod(c, port).argspec :
                            c \in {n \in NeedersOfUnresolved(services, port) :
                                        DeclaresSignatures(n)}} \cap considered
                IN  \A func \in result.template_funcs[port] :
                        IF declared # {} THEN getargspec(func) \in declared
                        ELSE getargspec(func) = GENERIC_ARGSPEC

CurrentlyStarted ==
    /\ patcher[1]._patches.kind = "list"
    /\ patcher[1]._patches.items # <<>>

\* C24: start() on a patcher that is currently started raises
\* RuntimeError('patch already started'); stop() on a patcher that is not
\* currently started, because it never was or because it was stopped, raises
\* RuntimeError('patcher not yet started').
C24_StartAndStopGuarded ==
    [][/\ (last'.op = "start" /\ CurrentlyStarted) =>
             last'.error = "RuntimeError: patch already started"
       /\ (last'.op = "stop" /\ ~CurrentlyStarted) =>
             last'.error = "RuntimeError: patcher not yet started"]_vars


\* ---- C30: a port patched and restored

\* The Services behind component that need port_name, at any depth.
NeedingWithin(component, port_name) ==
    {s \in ServicesWithin(component) : port_name \in get_needs(s)}

\* The step changed no port other than port_name of the Services in targets.
OnlyChanged(targets, port_name) ==
    /\ providers' = providers
    /\ DOMAIN slots' = DOMAIN slots
    /\ \A s \in DOMAIN slots :
          /\ slots'[s].ports = slots[s].ports
          /\ \A port \in slots[s].ports :
                (s \notin targets \/ port # port_name) =>
                    slots'[s].attrs[port] = slots[s].attrs[port]

\* C30: a patcher is created for the Services within the component that need
\* the port when these are all connected to one provider; UnknownPort is
\* raised when there is none, DisconnectedPort when the port is unbound, and
\* nothing is changed. start() binds the port of every one of them to the
\* mock it returns, stop() binds every one again to the callable it had
\* before start(), and no other port is changed by either.
C30_PatchRoundTrip ==
    [][/\ last'.op = "PortPatcher" =>
             LET needing == NeedingWithin(last'.args.component, last'.args.port_name)
             IN  /\ slots' = slots /\ providers' = providers
                 /\ needing = {} => last'.error = "UnknownPort"
                 /\ (needing # {} /\ \A s \in needing :
                        is_disconnected_port(slots[s], last'.args.port_name).value)
                       => last'.error = "DisconnectedPort"
                 /\ last'.error = "none" =>
                       /\ Range(patcher'[1].targets) = needing
                       /\ \A s \in needing :
                             slots[s].attrs[last'.args.port_name]
                                 = patcher'[1].provider
       /\ (last'.op = "start" /\ last'.error = "none") =>
             /\ \A s \in Range(patcher[1].targets) :
                   /\ slots[s].attrs[patcher[1].port_name] = patcher[1].provider
                   /\ slots'[s].attrs[patcher[1].port_name] = result'
             /\ result'.kind = "mock"
             /\ OnlyChanged(Range(patcher[1].targets), patcher[1].port_name)
       /\ (last'.op = "stop" /\ last'.error = "none") =>
             /\ \A s \in Range(patcher[1].targets) :
                   slots'[s].attrs[patcher[1].port_name] = patcher[1].provider
             /\ OnlyChanged(Range(patcher[1].targets), patcher[1].port_name)
       /\ (last'.op \in {"start", "stop"} /\ last'.error # "none") =>
             slots' = slots /\ providers' = providers
       /\ last'.op \in {"start", "stop"} =>
             /\ patcher'[1].provider = patcher[1].provider
             /\ patcher'[1].targets = patcher[1].targets
             /\ patcher'[1].port_name = patcher[1].port_name]_vars

\* c1 of x was patched and the patcher stopped: B and, two Domains down, XS
\* are both bound to the method of c again.
C30_Witness ==
    /\ last = Invocation("stop", <<>>, "none")
    /\ patcher[1].port_name = "c1"
    /\ Range(patcher[1].targets) = {<<"x", "B">>, <<"x", "D", "XS">>}
    /\ \A s \in Range(patcher[1].targets) :
          slots[s].attrs["c1"] = BoundMethod(<<"c">>, "c1")

====
